---- MODULE Spec2Model ----
(***************************************************************************)
(* Verification model of the happy-cli daemon (src/daemon/run.ts) and of   *)
(* the optimistic state update of the session sync client                  *)
(* (src/api/apiSession.ts).                                                *)
(*                                                                         *)
(* The specifications of this module:                                       *)
(*   SpecRegistry  the session registry of one running daemon, while the   *)
(*                 installed version stays the one it was started with:   *)
(*                 spawn, self-report webhook, stop, child exit, awaiter   *)
(*                 timeout and the heartbeat sweep;                        *)
(*   Spec          the life cycle of several daemon processes: startup     *)
(*                 check, version handoff, lock, state file, shutdown;     *)
(*   SpecHandoff   the fault-free runs of Spec, with fairness;             *)
(*   SpecTimers    the runs of Spec in which armed timeouts fire;          *)
(*   SpecTakeover  Spec with the daemon's files removed by hand, so that   *)
(*                 a second daemon starts beside a running one;            *)
(*   SpecRecovery  the runs of Spec in which every process goes on;        *)
(*   SpecAwaiter   the runs of SpecRegistry in which armed timers fire;    *)
(*   SpecOperations  Spec with failing session operations;                 *)
(*   SpecTickFaults  Spec with failing reads and writes inside a tick;     *)
(*   SpecUpdate    one client's optimistic update against the authority;   *)
(*   SpecUnordered SpecUpdate with update events that overtake answers;    *)
(*   SpecEnv       the environment spawnSession hands to the child;        *)
(*   SpecRpc       the RPC handler manager and its socket.                 *)
(* Each specification leaves the variables of the others unchanged.        *)
(***************************************************************************)
EXTENDS Integers, Sequences, FiniteSets, TLC

VARIABLES
    \* ---- session registry of one daemon (SpecRegistry) ----
    pidToTrackedSession,  \* Map<number, TrackedSession>
    pidToAwaiter,         \* Map<number, awaiter>; the awaiter is named by its spawn call
    calls,                \* the spawnSession calls: their promise state and timer
                          \* (reportSeen and stopped are history)
    os,                   \* the host's process table, by pid; sid is the session
                          \* the process creates for itself
    inflight,             \* self-report webhooks sent and not yet handled
    nextSid,              \* next session id the remote service hands out (one per
                          \* happy process)
    fsDirs,               \* directories that exist
    heartbeatRunning,     \* the tick's running flag
    tickPc,               \* where the heartbeat tick of this daemon stands
    stopFound,            \* what stopSession returned, when the step just taken
                          \* was a stopSession call (FALSE after any other step)
    \* ---- daemon processes of one machine (Spec, SpecHandoff) ----
    daemon,               \* the memory of each daemon process: pc (where
                          \* startDaemon stands, or how the process ended),
                          \* configuration.currentCliVersion, the source of the
                          \* first requestShutdown, the attempts acquireDaemonLock
                          \* has made, whether it holds a lock handle, whether
                          \* its heartbeat interval is set, where its tick is
                          \* suspended, the pid stopDaemon found
    stateFile,            \* daemon.state.json
    lockFile,             \* the lock file: 0, or the pid written into it
    projectVersion,       \* version in the package.json on disk
    \* ---- one session client and the authority (SpecUpdate) ----
    agentState,           \* the client's decrypted copy of the field
    agentStateVersion,    \* the version the client knows
    handler,              \* the mutator of the updateAgentState call in progress
    updatePc,             \* where that call stands
    updatesLeft,          \* updateAgentState calls still to be made
    attempts,             \* runs of the callback backoff has made for that call
    answered,             \* result of the last answer the callback got
    answeredVersion,      \* and the version that answer carried
    request,              \* the update-state request on the wire, if any
    toClient,             \* what the server has sent and the client not yet taken
    serverValue,          \* the authority's (encrypted) value of the field
    serverVersion,        \* the authority's version of the field
    \* ---- the environment of a spawned child (SpecEnv) ----
    processEnv,           \* process.env of the daemon
    childLaunch,          \* the options of the last spawnSession call that got
                          \* as far as spawnHappyCLI, and the env it passed
    \* ---- the RPC handler manager of one client (SpecRpc) ----
    handlers,             \* RpcHandlerManager.handlers: the registered methods
    socket,               \* RpcHandlerManager.socket: "null" or "set"
    connection,           \* the socket.io connection: closed, connecting, connected
    announced             \* the methods emitted as rpc-register on the current
                          \* connection

regVars == <<pidToTrackedSession, pidToAwaiter, calls, os, inflight, nextSid,
             fsDirs, heartbeatRunning, tickPc, stopFound>>

daemonVars == <<daemon, stateFile, lockFile, projectVersion>>
updVars == <<agentState, agentStateVersion, handler, updatePc, updatesLeft, attempts,
             answered, answeredVersion, request,
             toClient, serverValue, serverVersion>>

envVars == <<processEnv, childLaunch>>

rpcVars == <<handlers, socket, connection, announced>>

vars == <<regVars, daemonVars, updVars, envVars, rpcVars>>

\* What the actions of each specification leave alone.
RegFrame == UNCHANGED <<daemonVars, updVars, envVars, rpcVars>>
DaemonFrame == UNCHANGED <<regVars, updVars, envVars, rpcVars>>
UpdFrame == UNCHANGED <<regVars, daemonVars, envVars, rpcVars>>
EnvFrame == UNCHANGED <<regVars, daemonVars, updVars, rpcVars>>
RpcFrame == UNCHANGED <<regVars, daemonVars, updVars, envVars>>

-----------------------------------------------------------------------------
\* Bounds of the model.
MaxPid == 2
MaxCalls == 2
MaxSid == 2

Pids == 1..MaxPid
Calls == 1..MaxCalls
Sids == 1..MaxSid
Dirs == {"tmp", "new"}

NoId == 0
NoSession == [startedBy |-> "none", happySessionId |-> NoId, childProcess |-> 0,
              directoryCreated |-> FALSE]
NoProcess == [st |-> "none", child |-> FALSE, sid |-> NoId]
NewCall == [st |-> "new", pid |-> 0, sid |-> NoId, timer |-> FALSE,
            reportSeen |-> FALSE, stopped |-> FALSE, directory |-> "none",
            errorMessage |-> "none"]

\* The identifiers stopSession accepts: a remote session id, or "PID-<n>".
Idents == [kind : {"sid"}, v : Sids] \cup [kind : {"pid"}, v : Pids]

\* process.kill(pid, 0) does not throw: the pid names an entry of the process
\* table (a zombie child not yet reaped included).
IsAlive(pid) == os[pid].st # "none"

\* A listing that leaves out the sessions the daemon spawned.
getExternalChildren ==
    {[pid |-> p, startedBy |-> pidToTrackedSession[p].startedBy,
      happySessionId |-> pidToTrackedSession[p].happySessionId] :
        p \in {q \in Pids : pidToTrackedSession[q].startedBy = "external"}}

\* getCurrentChildren: the values of the map.
getCurrentChildren ==
    {[pid |-> p, startedBy |-> pidToTrackedSession[p].startedBy,
      happySessionId |-> pidToTrackedSession[p].happySessionId] :
        p \in {q \in Pids : pidToTrackedSession[q] # NoSession}}

\* The daemon holds something about this pid, or the pid is in use.
Referenced(p) ==
    \/ os[p].st # "none"
    \/ pidToTrackedSession[p] # NoSession
    \/ pidToAwaiter[p] # 0
    \/ \E m \in inflight : m.pid = p
    \/ \E c \in Calls : calls[c].pid = p

\* The pids the host may give a new process. Free pids that nothing refers to
\* are interchangeable (every handler treats pids alike), so the lowest of them
\* stands for all of them; a free pid that is still referred to is always
\* offered, which is the reuse of a pid.
FreePids ==
    {p \in Pids : /\ os[p].st = "none"
                  /\ (Referenced(p) \/ \A q \in Pids : q < p => Referenced(q))}

-----------------------------------------------------------------------------
InitRegistry ==
    /\ pidToTrackedSession = [p \in Pids |-> NoSession]
    /\ pidToAwaiter = [p \in Pids |-> 0]
    /\ calls = [c \in Calls |-> NewCall]
    /\ os = [p \in Pids |-> NoProcess]
    /\ inflight = {}
    /\ nextSid = 1
    /\ fsDirs = {"tmp"}
    /\ heartbeatRunning = FALSE
    /\ tickPc = "idle"
    /\ stopFound = FALSE

-----------------------------------------------------------------------------
(* The host and the child processes (the daemon's environment).            *)

\* runClaude: a happy process creates its session (its own id from the remote
\* service) and reports it once to the daemon, with hostPid = its own pid. The
\* daemon sees the report only when it handles it, so the report is put on the
\* wire when the process starts; it may be handled at any later time, also
\* after the process has ended, or never.
SelfReport(p, parent) == [pid |-> p, sid |-> nextSid, call |-> parent]

\* A happy process started from a terminal, not by the daemon.
ExternalStart(p) ==
    /\ p \in FreePids
    /\ nextSid <= MaxSid
    /\ os' = [os EXCEPT ![p] = [st |-> "running", child |-> FALSE, sid |-> nextSid]]
    /\ inflight' = inflight \cup {SelfReport(p, 0)}
    /\ nextSid' = nextSid + 1
    /\ UNCHANGED <<pidToTrackedSession, pidToAwaiter, calls,
                   fsDirs, heartbeatRunning, tickPc>>
    /\ RegFrame
    /\ stopFound' = FALSE

\* A process ends (by itself, or after a SIGTERM). A child of the daemon stays
\* in the process table as a zombie until the daemon reaps it.
ProcessDies(p) ==
    /\ os[p].st \in {"running", "dying"}
    /\ os' = [os EXCEPT ![p] = IF os[p].child
                                THEN [os[p] EXCEPT !.st = "zombie"]
                                ELSE NoProcess]
    /\ UNCHANGED <<pidToTrackedSession, pidToAwaiter, calls, inflight, nextSid,
                   fsDirs, heartbeatRunning, tickPc>>
    /\ RegFrame
    /\ stopFound' = FALSE

\* What one spawnSession call meets: the directory asked for, whether its
\* creation is approved, whether mkdir succeeds, and what spawnHappyCLI does
\* (-1 it throws, 0 it returns a process without pid, p > 0 the pid the host
\* gave the child). An input the call never looks at is held at one value.
SpawnInputs ==
    {i \in [directory : Dirs, approved : BOOLEAN, mkdirOk : BOOLEAN,
            launch : {-1, 0} \cup FreePids] :
        /\ (i.directory \in fsDirs \/ ~i.approved) => i.mkdirOk
        /\ (i.directory \notin fsDirs /\ ~(i.approved /\ i.mkdirOk)) => i.launch = -1}

-----------------------------------------------------------------------------
(* The daemon's handlers.                                                  *)

\* A directory check that never asks for approval.
NeverNeedsApproval(directory, approved) == FALSE

\* fs.access(directory) fails and approvedNewDirectoryCreation is false.
NeedsApproval(directory, approved) == directory \notin fsDirs /\ ~approved

\* A call that waits for the self-report of a process without pid.
NoPidWaits(cs, c) == [cs EXCEPT ![c].st = "waiting", ![c].timer = TRUE]

\* if (!happyProcess.pid): the call returns its error at once.
NoPidReturned(cs, c) ==
    [cs EXCEPT ![c].st = "error", ![c].errorMessage = "no PID returned"]

\* spawnSession(options): the directory check, the launch, the registration of
\* the tracked session and of the awaiter with its 15 s timer.
spawnSession(c, directory, approved, mkdirOk, launch) ==
    /\ calls[c].st = "new"
    /\ \A d \in Calls : d < c => calls[d].st # "new"
    /\ UNCHANGED <<heartbeatRunning, tickPc>>
    /\ RegFrame
    /\ stopFound' = FALSE
    /\ IF NeedsApproval(directory, approved)
       THEN /\ calls' = [calls EXCEPT ![c].st = "approval",
                                      ![c].directory = directory]
            /\ UNCHANGED <<pidToTrackedSession, pidToAwaiter, os, fsDirs, nextSid,
                           inflight>>
       ELSE IF directory \notin fsDirs /\ ~mkdirOk
       THEN /\ calls' = [calls EXCEPT ![c].st = "error",
                                      ![c].errorMessage = "Unable to create directory"]
            /\ UNCHANGED <<pidToTrackedSession, pidToAwaiter, os, fsDirs, nextSid,
                           inflight>>
       ELSE /\ fsDirs' = fsDirs \cup {directory}
            /\ IF launch \notin Pids
               THEN /\ calls' = IF launch = 0
                                   THEN NoPidReturned(calls, c)
                                   ELSE [calls EXCEPT
                                           ![c].st = "error",
                                           ![c].errorMessage = "Failed to spawn session"]
                    /\ UNCHANGED <<pidToTrackedSession, pidToAwaiter, os, nextSid,
                                   inflight>>
               ELSE /\ launch \in FreePids
                    /\ nextSid <= MaxSid
                    /\ nextSid' = nextSid + 1
                    /\ os' = [os EXCEPT ![launch] = [st |-> "running", child |-> TRUE,
                                                       sid |-> nextSid]]
                    /\ inflight' = inflight \cup {SelfReport(launch, c)}
                    /\ pidToTrackedSession' =
                         [pidToTrackedSession EXCEPT ![launch] =
                             [startedBy |-> "daemon", happySessionId |-> NoId,
                              childProcess |-> c,
                              directoryCreated |-> (directory \notin fsDirs)]]
                    /\ pidToAwaiter' = [pidToAwaiter EXCEPT ![launch] = c]
                    /\ calls' = [calls EXCEPT ![c] =
                                    [NewCall EXCEPT !.st = "waiting", !.pid = launch,
                                                    !.timer = TRUE]]

\* An awaiter that fails its call where it should resolve it.
ResolveAwaiterAsError(cs, a, session) ==
    IF cs[a].st = "waiting"
    THEN [cs EXCEPT ![a] = [NewCall EXCEPT !.st = "error"]]
    ELSE [cs EXCEPT ![a].timer = FALSE]

\* The awaiter spawnSession registered for call a: clearTimeout and resolve.
\* Resolving a promise that is already settled changes nothing.
ResolveAwaiter(cs, a, session) ==
    IF cs[a].st = "waiting"
    THEN [cs EXCEPT ![a] = [NewCall EXCEPT !.st = "success",
                                            !.sid = session.happySessionId]]
    ELSE [cs EXCEPT ![a].timer = FALSE]

\* History only: the calls still waiting on this pid have seen a report for it.
MarkReport(cs, pid) ==
    [c \in Calls |-> IF cs[c].st = "waiting" /\ cs[c].pid = pid
                     THEN [cs[c] EXCEPT !.reportSeen = TRUE] ELSE cs[c]]

\* The entry the webhook handler makes for a pid it does not know. The
\* startedBy rule of lines 174-180 is first in the variant that marks every
\* entry as the daemon's own.
ExternalSessionAsDaemon(sessionId) ==
    [startedBy |-> "daemon", happySessionId |-> sessionId, childProcess |-> 0,
     directoryCreated |-> FALSE]

ExternalSession(sessionId) ==
    [startedBy |-> "external", happySessionId |-> sessionId, childProcess |-> 0,
     directoryCreated |-> FALSE]

\* A handler that does not write the reported id into the entry.
LeaveSession(session, sessionId) == session

\* existingSession.happySessionId = sessionId.
PopulateSession(session, sessionId) == [session EXCEPT !.happySessionId = sessionId]

\* A handler that leaves the awaiter it has called in the map.
KeepAwaiter(awaiters, pid) == awaiters

\* pidToAwaiter.delete(pid), before the awaiter is called.
DeleteAwaiter(awaiters, pid) == [awaiters EXCEPT ![pid] = 0]

\* onHappySessionWebhook(sessionId, sessionMetadata), pid = sessionMetadata.hostPid
\* (0 when the metadata carries none).
onHappySessionWebhook(sessionId, pid) ==
    IF pid = 0
    THEN UNCHANGED <<pidToTrackedSession, pidToAwaiter, calls>>
    ELSE LET existingSession == pidToTrackedSession[pid] IN
         IF existingSession # NoSession /\ existingSession.startedBy = "daemon"
         THEN LET updated == PopulateSession(existingSession, sessionId)
                  awaiter == pidToAwaiter[pid]
              IN /\ pidToTrackedSession' = [pidToTrackedSession EXCEPT ![pid] = updated]
                 /\ IF awaiter # 0
                    THEN /\ pidToAwaiter' = DeleteAwaiter(pidToAwaiter, pid)
                         /\ calls' = ResolveAwaiter(MarkReport(calls, pid), awaiter, updated)
                    ELSE /\ calls' = MarkReport(calls, pid)
                         /\ UNCHANGED pidToAwaiter
         ELSE IF existingSession = NoSession
         THEN /\ pidToTrackedSession' =
                    [pidToTrackedSession EXCEPT ![pid] = ExternalSession(sessionId)]
              /\ calls' = MarkReport(calls, pid)
              /\ UNCHANGED pidToAwaiter
         ELSE /\ calls' = MarkReport(calls, pid)
              /\ UNCHANGED <<pidToTrackedSession, pidToAwaiter>>

\* The control server takes one self-report off the wire and runs the handler.
HandleWebhook(m) ==
    /\ m \in inflight
    /\ inflight' = inflight \ {m}
    /\ onHappySessionWebhook(m.sid, m.pid)
    /\ UNCHANGED <<os, nextSid, fsDirs, heartbeatRunning, tickPc>>
    /\ RegFrame
    /\ stopFound' = FALSE

\* A report whose metadata has no hostPid: logged and ignored.
HandleWebhookWithoutPid(s) ==
    /\ onHappySessionWebhook(s, 0)
    /\ UNCHANGED <<os, inflight, nextSid, fsDirs, heartbeatRunning, tickPc>>
    /\ RegFrame
    /\ stopFound' = FALSE

\* A timeout callback that also drops the tracked session of its pid.
WebhookTimeoutRemovingSession(c) ==
    /\ calls[c].timer
    /\ pidToAwaiter' = [pidToAwaiter EXCEPT ![calls[c].pid] = 0]
    /\ pidToTrackedSession' = [pidToTrackedSession EXCEPT ![calls[c].pid] = NoSession]
    /\ calls' = [calls EXCEPT ![c] = IF calls[c].st = "waiting"
                                     THEN [NewCall EXCEPT
                                             !.st = "error",
                                             !.errorMessage = "Session webhook timeout"]
                                     ELSE [calls[c] EXCEPT !.timer = FALSE]]
    /\ UNCHANGED <<os, inflight, nextSid, fsDirs, heartbeatRunning, tickPc>>
    /\ RegFrame
    /\ stopFound' = FALSE

\* The 15 s timer of spawnSession call c fires.
WebhookTimeout(c) ==
    /\ calls[c].timer
    /\ pidToAwaiter' = [pidToAwaiter EXCEPT ![calls[c].pid] = 0]
    /\ calls' = [calls EXCEPT ![c] = IF calls[c].st = "waiting"
                                     THEN [NewCall EXCEPT
                                             !.st = "error",
                                             !.errorMessage = "Session webhook timeout"]
                                     ELSE [calls[c] EXCEPT !.timer = FALSE]]
    /\ UNCHANGED <<pidToTrackedSession, os, inflight, nextSid, fsDirs,
                   heartbeatRunning, tickPc>>
    /\ RegFrame
    /\ stopFound' = FALSE

\* History only: the session id a spawn call returned has been stopped.
MarkStopped(cs, session) ==
    [c \in Calls |-> IF cs[c].st = "success" /\ cs[c].sid = session.happySessionId
                     THEN [cs[c] EXCEPT !.stopped = TRUE] ELSE cs[c]]

\* A test that takes any tracked entry for the one asked for.
MatchesAnyTracked(ident, pid) == pidToTrackedSession[pid] # NoSession

\* stopSession's test of one map entry against the identifier it was given.
Matches(ident, pid) ==
    /\ pidToTrackedSession[pid] # NoSession
    /\ \/ ident.kind = "sid" /\ pidToTrackedSession[pid].happySessionId = ident.v
       \/ ident.kind = "pid" /\ pid = ident.v

\* kill(pid, SIGTERM): a running process starts to terminate; a failed delivery
\* (no such process, or a zombie) is caught and logged.
Sigterm(o, pid) ==
    IF o[pid].st = "running" THEN [o EXCEPT ![pid].st = "dying"] ELSE o

\* A stop that goes on only after a delivered signal.
KillDelivered(o, pid) == o[pid].st \in {"running", "dying"}

\* Both kills of stopSession stand in a try block whose catch only logs: the
\* statement after them is reached whatever the delivery did.
KillCaught(o, pid) == TRUE

\* stopSession(sessionId): the first matching entry is signalled and removed.
\* (Session ids are unique per reporting process, so at most one entry matches
\* and the map's iteration order does not matter.)
stopSession(ident) ==
    LET found == {pid \in Pids : Matches(ident, pid)} IN
    /\ IF found # {}
       THEN LET pid == CHOOSE q \in found : \A r \in found : q <= r IN
            IF KillCaught(os, pid)
            THEN /\ os' = Sigterm(os, pid)
                 /\ pidToTrackedSession' =
                      [pidToTrackedSession EXCEPT ![pid] = NoSession]
                 /\ calls' = MarkStopped(calls, pidToTrackedSession[pid])
                 /\ stopFound' = TRUE
            ELSE /\ stopFound' = FALSE
                 /\ UNCHANGED <<os, pidToTrackedSession, calls>>
       ELSE /\ stopFound' = FALSE
            /\ UNCHANGED <<os, pidToTrackedSession, calls>>
    /\ UNCHANGED <<pidToAwaiter, inflight, nextSid, fsDirs, heartbeatRunning,
                   tickPc>>
    /\ RegFrame

\* An exit listener that reaps the child and leaves its entry in the map.
onChildExitedKeepsEntry(p) ==
    /\ os[p].st = "zombie"
    /\ os' = [os EXCEPT ![p] = NoProcess]
    /\ UNCHANGED <<pidToTrackedSession, pidToAwaiter, calls, inflight, nextSid,
                   fsDirs, heartbeatRunning, tickPc>>
    /\ RegFrame
    /\ stopFound' = FALSE

\* The daemon reaps a dead child; its 'exit' listener runs onChildExited(pid).
onChildExited(p) ==
    /\ os[p].st = "zombie"
    /\ os' = [os EXCEPT ![p] = NoProcess]
    /\ pidToTrackedSession' = [pidToTrackedSession EXCEPT ![p] = NoSession]
    /\ UNCHANGED <<pidToAwaiter, calls, inflight, nextSid, fsDirs, heartbeatRunning,
                   tickPc>>
    /\ RegFrame
    /\ stopFound' = FALSE

\* A sweep that deletes nothing.
SweepNothing(tracked) == tracked

\* The sweep of the heartbeat tick: every tracked pid that process.kill(pid, 0)
\* rejects is deleted.
SweepDead(tracked) ==
    [p \in Pids |-> IF IsAlive(p) THEN tracked[p] ELSE NoSession]

\* The interval timer fires. With the running flag set the callback returns at
\* once. Otherwise it sets the flag and sweeps; the installed version is the one
\* the daemon runs (see Spec for the other case), so the tick goes on to wait
\* for readDaemonState.
HeartbeatTick ==
    /\ IF heartbeatRunning
       THEN UNCHANGED <<pidToTrackedSession, heartbeatRunning, tickPc>>
       ELSE /\ heartbeatRunning' = TRUE
            /\ pidToTrackedSession' = SweepDead(pidToTrackedSession)
            /\ tickPc' = "read"
    /\ UNCHANGED <<pidToAwaiter, calls, os, inflight, nextSid, fsDirs>>
    /\ RegFrame
    /\ stopFound' = FALSE

\* readDaemonState returned: the state file is rewritten and the flag released.
HeartbeatTickDone ==
    /\ tickPc = "read"
    /\ heartbeatRunning' = FALSE
    /\ tickPc' = "idle"
    /\ UNCHANGED <<pidToTrackedSession, pidToAwaiter, calls, os, inflight, nextSid,
                   fsDirs>>
    /\ RegFrame
    /\ stopFound' = FALSE

-----------------------------------------------------------------------------
(* The daemon processes of one machine: startDaemon from the startup check *)
(* to the exit of the process. A process is named by its pid.              *)

MaxProcs == 2
MaxVersion == 2
LockMaxAttempts == 5

Procs == 1..MaxProcs
NoState == [pid |-> 0, httpPort |-> 0, startedWithCliVersion |-> 0]
ExitedPcs == {"exit0", "exit1", "killed"}

\* A process that has not been started: nothing is in its memory.
NotStarted ==
    [pc |-> "idle", currentCliVersion |-> 0, shutdownSource |-> "none",
     lockAttempts |-> 0, daemonLockHandle |-> FALSE, heartbeatOn |-> FALSE,
     tickAt |-> "idle", bodies |-> 0, stopTarget |-> 0, controlPort |-> 0,
     source |-> "none",
     pushedSource |-> "none", failed |-> "none"]

\* A process after process.exit(code) or SIGKILL: its memory, its timers and
\* its suspended tick are gone with it.
Gone(how) == [NotStarted EXCEPT !.pc = how]

Alive(p) == p \in Procs /\ daemon[p].pc \notin ({"idle"} \cup ExitedPcs)

\* The control server listens from startDaemonControlServer to stopControlServer.
ControlServerUp(p) ==
    /\ p \in Procs
    /\ daemon[p].pc \in {"writeState", "register", "running", "sdPush", "sdServer"}

\* The machine client of the process is connected to the remote service.
MachineConnected(p) == daemon[p].pc \in {"running", "sdPush"}

InitDaemon ==
    /\ daemon = [p \in Procs |-> NotStarted]
    /\ stateFile = NoState
    /\ lockFile = 0
    /\ projectVersion = 1

\* A requestShutdown whose promise takes the source of the latest request.
requestShutdownLastWins(d, source) == [d EXCEPT !.shutdownSource = source]

\* requestShutdown(source): resolves the shutdown promise, which keeps the
\* first source, and arms the 1 s safety-net timer.
requestShutdown(d, source) ==
    [d EXCEPT !.shutdownSource = IF @ = "none" THEN source ELSE @]

\* The process the host creates for `happy daemon start`: it runs the
\* version installed on disk.
NextProc ==
    CHOOSE p \in Procs :
        daemon[p].pc = "idle" /\ \A q \in Procs : q < p => daemon[q].pc # "idle"
Started == [NotStarted EXCEPT !.pc = "check", !.currentCliVersion = projectVersion]

\* A user starts a daemon.
DaemonStart ==
    /\ \E p \in Procs : daemon[p].pc = "idle"
    /\ daemon' = [daemon EXCEPT ![NextProc] = Started]
    /\ UNCHANGED <<stateFile, lockFile, projectVersion>>
    /\ DaemonFrame

\* npm upgrade: the package.json on disk gets a new version.
Upgrade ==
    /\ projectVersion < MaxVersion
    /\ projectVersion' = projectVersion + 1
    /\ UNCHANGED <<daemon, stateFile, lockFile>>
    /\ DaemonFrame

\* isDaemonRunningCurrentlyInstalledHappyVersion: a state record exists, its
\* pid is alive and its startedWithCliVersion is this process's version. A
\* record whose pid is dead counts as absent.
isDaemonRunningCurrentlyInstalledHappyVersion(p) ==
    /\ stateFile # NoState
    /\ Alive(stateFile.pid)
    /\ stateFile.startedWithCliVersion = daemon[p].currentCliVersion

\* A startup check that stops the running daemon whatever its version.
AlwaysStopDaemon(runningDaemonVersionMatches) == "stopDaemon"

\* A startup check that goes on to the lock without stopping the old daemon.
SkipStopDaemon(runningDaemonVersionMatches) ==
    IF runningDaemonVersionMatches THEN "exit0" ELSE "lock"

\* startDaemon after the check: exit 0 on a match, else stopDaemon.
VersionCheckNext(runningDaemonVersionMatches) ==
    IF runningDaemonVersionMatches THEN "exit0" ELSE "stopDaemon"

\* The process goes on at `to`, or ends if `to` is an exit.
GoTo(d, to) == IF to \in ExitedPcs THEN Gone(to) ELSE [d EXCEPT !.pc = to]

StartupVersionCheck(p) ==
    /\ daemon[p].pc = "check"
    /\ daemon' = [daemon EXCEPT ![p] =
           GoTo(@, VersionCheckNext(isDaemonRunningCurrentlyInstalledHappyVersion(p)))]
    /\ UNCHANGED <<stateFile, lockFile, projectVersion>>
    /\ DaemonFrame

\* stopDaemon reads the state file; with no record there is nothing to stop.
\* Else it posts /stop to the recorded daemon, whose handler calls
\* requestShutdown('happy-cli'); if the request fails it sends SIGKILL.
StopDaemonRequest(p, httpOk) ==
    /\ daemon[p].pc = "stopDaemon"
    /\ IF stateFile = NoState
       THEN /\ httpOk
            /\ daemon' = [daemon EXCEPT ![p].pc = "lock"]
       ELSE LET q == stateFile.pid
            IN /\ httpOk => ControlServerUp(q)
               /\ daemon' =
                    IF httpOk
                    THEN [daemon EXCEPT ![p].pc = "stopWait", ![p].stopTarget = q,
                                        ![q] = requestShutdown(@, "happy-cli")]
                    ELSE [daemon EXCEPT ![p].pc = "lock", ![p].stopTarget = q,
                                        ![q] = IF Alive(q) THEN Gone("killed") ELSE @]
    /\ UNCHANGED <<stateFile, lockFile, projectVersion>>
    /\ DaemonFrame

\* stopDaemon returns once the old process is gone.
StopDaemonWaitOver(p) ==
    /\ daemon[p].pc = "stopWait"
    /\ ~Alive(daemon[p].stopTarget)
    /\ daemon' = [daemon EXCEPT ![p].pc = "lock"]
    /\ UNCHANGED <<stateFile, lockFile, projectVersion>>
    /\ DaemonFrame

\* The old process is still there when the wait runs out: SIGKILL.
StopDaemonKill(p) ==
    /\ daemon[p].pc = "stopWait"
    /\ Alive(daemon[p].stopTarget)
    /\ daemon' = [daemon EXCEPT ![p].pc = "lock",
                                ![daemon[p].stopTarget] = Gone("killed")]
    /\ UNCHANGED <<stateFile, lockFile, projectVersion>>
    /\ DaemonFrame

\* A lock that looks at the existence of the lock file only.
LockFileAbsent == lockFile = 0

\* May this process create the lock file now: the file is absent, or it
\* names a process that is gone and the attempt replaces it.
LockFree == lockFile = 0 \/ ~Alive(lockFile)

\* A startDaemon that goes on after acquireDaemonLock returned null.
ProceedRegardless(acquired) == "auth"

\* startDaemon after acquireDaemonLock: exit 0 on null.
LockResultNext(acquired) == IF acquired THEN "auth" ELSE "exit0"

\* One attempt of acquireDaemonLock(5, 200): exclusive creation of the lock
\* file; after the last failed attempt the call returns null.
AcquireLockAttempt(p) ==
    /\ daemon[p].pc = "lock"
    /\ IF LockFree
       THEN /\ lockFile' = p
            /\ daemon' = [daemon EXCEPT ![p] =
                   GoTo([@ EXCEPT !.lockAttempts = @ + 1, !.daemonLockHandle = TRUE],
                        LockResultNext(TRUE))]
       ELSE /\ lockFile' = lockFile
            /\ daemon' = [daemon EXCEPT ![p] =
                   IF @.lockAttempts + 1 = LockMaxAttempts
                   THEN GoTo([@ EXCEPT !.lockAttempts = @ + 1], LockResultNext(FALSE))
                   ELSE [@ EXCEPT !.lockAttempts = @ + 1]]
    /\ UNCHANGED <<stateFile, projectVersion>>
    /\ DaemonFrame

\* A catch block that goes into the clearing of the state file and the
\* release of the lock instead of exiting.
ThrowIntoCleanup(d, to, ok) == IF ok THEN GoTo(d, to) ELSE [d EXCEPT !.pc = "sdClear"]

\* A step of the try block of startDaemon from one await to the next, or a
\* throw into its catch block: process.exit(1).
StepOrThrow(d, to, ok) == IF ok THEN GoTo(d, to) ELSE Gone("exit1")

\* authAndSetupMachineIfNeeded
Authenticate(p, ok) ==
    /\ daemon[p].pc = "auth"
    /\ daemon' = [daemon EXCEPT ![p] = StepOrThrow(@, "server", ok)]
    /\ UNCHANGED <<stateFile, lockFile, projectVersion>>
    /\ DaemonFrame

\* The port the OS gives to the control server of process p: one per process.
EphemeralPort(p) == MaxProcs + p

\* startDaemonControlServer: binds a port and returns it as controlPort.
StartControlServer(p, ok) ==
    /\ daemon[p].pc = "server"
    /\ daemon' = [daemon EXCEPT ![p] =
           StepOrThrow([daemon[p] EXCEPT !.controlPort = EphemeralPort(p)],
                       "writeState", ok)]
    /\ UNCHANGED <<stateFile, lockFile, projectVersion>>
    /\ DaemonFrame

\* A record that does not publish the port of the control server.
OwnStateWithoutPort(p) ==
    [pid |-> p, httpPort |-> 0,
     startedWithCliVersion |-> daemon[p].currentCliVersion]

\* fileState and updatedState: pid, httpPort: controlPort and
\* startedWithCliVersion: packageJson.version.
OwnState(p) ==
    [pid |-> p, httpPort |-> daemon[p].controlPort,
     startedWithCliVersion |-> daemon[p].currentCliVersion]

\* writeDaemonState(fileState)
WriteInitialState(p, ok) ==
    /\ daemon[p].pc = "writeState"
    /\ daemon' = [daemon EXCEPT ![p] = StepOrThrow(@, "register", ok)]
    /\ stateFile' = IF ok THEN OwnState(p) ELSE stateFile
    /\ UNCHANGED <<lockFile, projectVersion>>
    /\ DaemonFrame

\* getOrCreateMachine, the machine sync client and its connect, and the
\* setInterval of the heartbeat.
RegisterMachine(p, ok) ==
    /\ daemon[p].pc = "register"
    /\ daemon' = [daemon EXCEPT ![p] =
           StepOrThrow([@ EXCEPT !.heartbeatOn = TRUE], "running", ok)]
    /\ UNCHANGED <<stateFile, lockFile, projectVersion>>
    /\ DaemonFrame

\* A guard that lets every firing of the interval run the body.
HeartbeatNeverRunning(d) == FALSE

\* The flag heartbeatRunning of the interval callback: set when a body begins,
\* reset at the end of a body that wrote the heartbeat.
HeartbeatRunning(d) == d.tickAt # "idle"

\* An outdated daemon that goes into the hang with its interval still armed.
OutdatedTickKeepsInterval(d) == [d EXCEPT !.tickAt = "hang", !.bodies = @ + 1]

\* The body of a tick that finds another version on disk, up to its hang:
\* clearInterval, then (after the spawn) the await of the 10 s timeout.
OutdatedTick(d) ==
    [d EXCEPT !.heartbeatOn = FALSE, !.tickAt = "hang", !.bodies = @ + 1]

\* A tick of the heartbeat interval up to its first await. The pruning of
\* dead sessions it starts with is the HeartbeatTick of the registry. With
\* the version on disk differing from the compiled one the tick clears the
\* interval, spawns `happy daemon start` (which may fail) and hangs for 10 s.
TickStart(p, spawnOk) ==
    /\ daemon[p].heartbeatOn
    /\ IF HeartbeatRunning(daemon[p])
       THEN /\ spawnOk
            /\ UNCHANGED daemon
       ELSE IF projectVersion # daemon[p].currentCliVersion
       THEN LET hung == [daemon EXCEPT ![p] = OutdatedTick(@)]
            IN daemon' = IF spawnOk /\ \E q \in Procs : daemon[q].pc = "idle"
                         THEN [hung EXCEPT ![NextProc] = Started]
                         ELSE hung
       ELSE /\ spawnOk
            /\ daemon' = [daemon EXCEPT ![p].tickAt = "read",
                                        ![p].bodies = @ + 1]
    /\ UNCHANGED <<stateFile, lockFile, projectVersion>>
    /\ DaemonFrame

\* A tick that never finds the state file taken over.
NeverTakenOver(p) == FALSE

\* daemonState && daemonState.pid !== process.pid
TakenOver(p) == stateFile # NoState /\ stateFile.pid # p

\* The tick after readDaemonState: a record of another pid requests the
\* shutdown of this daemon; the heartbeat record is written in either case.
TickFinish(p) ==
    /\ daemon[p].tickAt = "read"
    /\ daemon' = [daemon EXCEPT ![p] =
           [(IF TakenOver(p)
             THEN requestShutdown(@, "exception") ELSE @)
              EXCEPT !.tickAt = "idle", !.bodies = @ - 1]]
    /\ stateFile' = OwnState(p)
    /\ UNCHANGED <<lockFile, projectVersion>>
    /\ DaemonFrame

\* The end of the 10 s hang of an outdated daemon: process.exit(0).
HangExit(p) ==
    /\ daemon[p].tickAt = "hang"
    /\ daemon' = [daemon EXCEPT ![p] = Gone("exit0")]
    /\ UNCHANGED <<stateFile, lockFile, projectVersion>>
    /\ DaemonFrame

\* SIGINT or SIGTERM (handlers are installed before the startup check), or
\* the shutdown RPC of the mobile app once the machine client is connected.
\* The /stop of the control server is raised by StopDaemonRequest and the
\* 'exception' of a tick by TickFinish; an uncaught exception takes the same
\* path as a signal.
ShutdownRequested(p, source) ==
    /\ Alive(p)
    /\ source = "happy-app" => MachineConnected(p)
    /\ daemon' = [daemon EXCEPT ![p] = requestShutdown(@, source)]
    /\ UNCHANGED <<stateFile, lockFile, projectVersion>>
    /\ DaemonFrame

\* A requestShutdown that arms no timer.
SafetyNetNeverArmed(d) == FALSE

\* requestShutdown has armed its safety-net timer: setTimeout(..., 1_000) in
\* every call, never cleared.
SafetyNetArmed(d) == d.shutdownSource # "none"

\* The safety-net timer armed by requestShutdown fires: process.exit(1).
SafetyNetExit(p) ==
    /\ Alive(p)
    /\ SafetyNetArmed(daemon[p])
    /\ daemon' = [daemon EXCEPT ![p] = Gone("exit1")]
    /\ UNCHANGED <<stateFile, lockFile, projectVersion>>
    /\ DaemonFrame

\* The state file and the lock file of a running daemon are removed by hand.
StateFilesRemoved ==
    /\ \E p \in Procs : daemon[p].pc = "running" /\ lockFile = p /\ stateFile.pid = p
    /\ stateFile' = NoState
    /\ lockFile' = 0
    /\ UNCHANGED <<daemon, projectVersion>>
    /\ DaemonFrame

\* The process is killed from outside (SIGKILL, power loss).
Crash(p) ==
    /\ Alive(p)
    /\ daemon' = [daemon EXCEPT ![p] = Gone("killed")]
    /\ UNCHANGED <<stateFile, lockFile, projectVersion>>
    /\ DaemonFrame

\* cleanupAndShutdown(source), entered with the value the awaited shutdown
\* promise resolved to: clearInterval.
CleanupBegin(p) ==
    /\ daemon[p].pc = "running"
    /\ daemon[p].shutdownSource # "none"
    /\ daemon' = [daemon EXCEPT ![p].pc = "sdPush", ![p].heartbeatOn = FALSE,
                                ![p].source = daemon[p].shutdownSource]
    /\ UNCHANGED <<stateFile, lockFile, projectVersion>>
    /\ DaemonFrame

\* updateDaemonState pushes status 'shutting-down' with shutdownSource: source,
\* then apiMachine.shutdown().
CleanupPushed(p, ok) ==
    /\ daemon[p].pc = "sdPush"
    /\ daemon' = [daemon EXCEPT ![p] =
           StepOrThrow([@ EXCEPT !.pushedSource = daemon[p].source], "sdServer", ok)]
    /\ UNCHANGED <<stateFile, lockFile, projectVersion>>
    /\ DaemonFrame

\* stopControlServer
CleanupServerStopped(p, ok) ==
    /\ daemon[p].pc = "sdServer"
    /\ daemon' = [daemon EXCEPT ![p] = StepOrThrow(@, "sdClear", ok)]
    /\ UNCHANGED <<stateFile, lockFile, projectVersion>>
    /\ DaemonFrame

\* A cleanup that goes on to the release of the lock and leaves the state file.
CleanupStateKept(p, ok) ==
    /\ daemon[p].pc = "sdClear"
    /\ daemon' = [daemon EXCEPT ![p] = StepOrThrow(@, "sdRelease", ok)]
    /\ UNCHANGED <<stateFile, lockFile, projectVersion>>
    /\ DaemonFrame

\* cleanupDaemonState deletes the state file.
CleanupStateCleared(p, ok) ==
    /\ daemon[p].pc = "sdClear"
    /\ daemon' = [daemon EXCEPT ![p] = StepOrThrow(@, "sdRelease", ok)]
    /\ stateFile' = IF ok THEN NoState ELSE stateFile
    /\ UNCHANGED <<lockFile, projectVersion>>
    /\ DaemonFrame

\* releaseDaemonLock(daemonLockHandle), then process.exit(0).
CleanupLockReleased(p, ok) ==
    /\ daemon[p].pc = "sdRelease"
    /\ daemon' = [daemon EXCEPT ![p] = StepOrThrow(@, "exit0", ok)]
    /\ lockFile' = IF ok /\ daemon[p].daemonLockHandle THEN 0 ELSE lockFile
    /\ UNCHANGED <<stateFile, projectVersion>>
    /\ DaemonFrame

-----------------------------------------------------------------------------
(* The optimistic update of a versioned field: ApiSessionClient against    *)
(* the authority. A value that may be null is a set with at most one       *)
(* element; an agent state object is the set of the keys it has.           *)

MaxKeys == 2
MaxUpdates == 2
MaxOtherVersion == 2

Keys == 1..MaxKeys
Null == {}
Some(x) == {x}
The(v) == CHOOSE x \in v : TRUE
EmptyObject == {}
encryptionKey == "key"

encrypt(key, data) == [key |-> key, data |-> data]
decrypt(key, data) == IF data.key = key THEN Some(data.data) ELSE Null
encodeBase64(buffer) == <<"base64", buffer>>
decodeBase64(base64) == base64[2]

\* updated ? encodeBase64(encrypt(key, variant, updated)) : null
Sealed(updated) ==
    IF updated = Null THEN Null
    ELSE Some(encodeBase64(encrypt(encryptionKey, The(updated))))

\* value ? decrypt(key, variant, decodeBase64(value)) : null
Opened(value) ==
    IF value = Null THEN Null ELSE decrypt(encryptionKey, decodeBase64(The(value)))

\* The handlers callers pass: toggle one key of the object, or return null.
Mutators == [op : {"toggle"}, key : Keys] \cup {[op |-> "null", key |-> 0]}
NoHandler == [op |-> "none", key |-> 0]
Apply(h, object) ==
    IF h.op = "null" THEN Null
    ELSE Some((object \ {h.key}) \cup ({h.key} \ object))

\* handler(this.agentState || {})
Updated(h, state) == Apply(h, IF state = Null THEN EmptyObject ELSE The(state))

InitUpdate ==
    /\ agentState = Null
    /\ agentStateVersion = 0
    /\ handler = NoHandler
    /\ updatePc = "idle"
    /\ updatesLeft = MaxUpdates
    /\ attempts = 0
    /\ answered = "none"
    /\ answeredVersion = 0
    /\ request = Null
    /\ toClient = <<>>
    /\ serverValue = Null
    /\ serverVersion = 0

\* A lock that admits a callback while another one is inside.
AdmitsAtOnce == TRUE

\* agentStateLock.inLock(...): the lock admits a callback when the one
\* before it has returned (a call that waits at the lock has done nothing
\* yet, and is a call still to be made).
LockAdmits == updatePc = "idle"

\* updateAgentState(handler): the callback enters the lock, which admits one
\* call at a time.
updateAgentState(h) ==
    /\ LockAdmits
    /\ updatesLeft > 0
    /\ updatesLeft' = updatesLeft - 1
    /\ handler' = h
    /\ updatePc' = "attempt"
    /\ attempts' = 0
    /\ answered' = "none"
    /\ answeredVersion' = 0
    /\ UNCHANGED <<agentState, agentStateVersion, request, toClient, serverValue,
                   serverVersion>>
    /\ UpdFrame

\* One run of the callback backoff repeats, up to its await: the handler is
\* applied to the local value and update-state is emitted.
EmitUpdateState ==
    /\ updatePc = "attempt"
    /\ request' = Some([expectedVersion |-> agentStateVersion,
                        agentState |-> Sealed(Updated(handler, agentState))])
    /\ updatePc' = "await"
    /\ attempts' = attempts + 1
    /\ UNCHANGED <<agentState, agentStateVersion, handler, updatesLeft, answered,
                   answeredVersion,
                   toClient, serverValue, serverVersion>>
    /\ UpdFrame

Ack(result, version, value) ==
    [t |-> "ack", result |-> result, version |-> version, agentState |-> value]

\* The authority handles update-state: it accepts a write whose
\* expectedVersion is its version and answers with the new value and
\* version, else it answers version-mismatch with what it has; or it fails.
AuthorityHandles(fails) ==
    /\ request # Null
    /\ request' = Null
    /\ LET r == The(request)
       IN IF fails
          THEN /\ toClient' = Append(toClient, Ack("error", 0, Null))
               /\ UNCHANGED <<serverValue, serverVersion>>
          ELSE IF r.expectedVersion = serverVersion
          THEN /\ serverValue' = r.agentState
               /\ serverVersion' = serverVersion + 1
               /\ toClient' = Append(toClient,
                                     Ack("success", serverVersion + 1, r.agentState))
          ELSE /\ toClient' = Append(toClient,
                                     Ack("version-mismatch", serverVersion, serverValue))
               /\ UNCHANGED <<serverValue, serverVersion>>
    /\ UNCHANGED <<agentState, agentStateVersion, handler, updatePc, updatesLeft,
                   attempts, answered, answeredVersion>>
    /\ UpdFrame

\* Another client of the session writes the field; the authority may push
\* an update-session to this client.
OtherClientWrites(object, push) ==
    /\ serverVersion < MaxOtherVersion
    /\ serverValue' = Sealed(Some(object))
    /\ serverVersion' = serverVersion + 1
    /\ toClient' = IF push
                   THEN Append(toClient, [t |-> "update", result |-> "none",
                                          version |-> serverVersion + 1,
                                          agentState |-> Sealed(Some(object))])
                   ELSE toClient
    /\ UNCHANGED <<agentState, agentStateVersion, handler, updatePc, updatesLeft,
                   attempts, answered, answeredVersion, request>>
    /\ UpdFrame

\* The 'update' handler of the socket, for an update-session body.
HandleUpdate ==
    /\ toClient # <<>>
    /\ Head(toClient).t = "update"
    /\ toClient' = Tail(toClient)
    /\ IF Head(toClient).version > agentStateVersion
       THEN /\ agentState' = Opened(Head(toClient).agentState)
            /\ agentStateVersion' = Head(toClient).version
       ELSE UNCHANGED <<agentState, agentStateVersion>>
    /\ UNCHANGED <<handler, updatePc, updatesLeft, attempts, answered, answeredVersion,
                   request,
                   serverValue, serverVersion>>
    /\ UpdFrame

\* A version-mismatch answer that is thrown without being adopted.
AdoptNothing(local, answer) == local

\* A version-mismatch answer that moves the local version on and keeps the
\* local value.
AdoptVersionOnly(local, answer) ==
    IF answer.version > local.version
    THEN [value |-> local.value, version |-> answer.version]
    ELSE local

\* The version-mismatch branch: a newer version is adopted with its value.
AdoptOnMismatch(local, answer) ==
    IF answer.version > local.version
    THEN [value |-> Opened(answer.agentState), version |-> answer.version]
    ELSE local

\* A callback that throws on every answer but success.
RetryUnlessSuccess(result) == IF result = "success" THEN "idle" ELSE "attempt"

\* How the callback ends: only the version-mismatch branch throws, and
\* backoff runs the callback again; after success or error the callback
\* returns, and with it backoff and the lock.
AfterAnswer(result) == IF result = "version-mismatch" THEN "attempt" ELSE "idle"

\* The callback after its await. success: the answer's value and version
\* become the local ones; version-mismatch: adopt and throw, so that backoff
\* runs the callback again; error: ignored.
HandleAnswer ==
    /\ toClient # <<>>
    /\ Head(toClient).t = "ack"
    /\ toClient' = Tail(toClient)
    /\ answered' = Head(toClient).result
    /\ answeredVersion' = Head(toClient).version
    /\ LET answer == Head(toClient)
           local == [value |-> agentState, version |-> agentStateVersion]
       IN IF answer.result = "success"
          THEN /\ agentState' = Opened(answer.agentState)
               /\ agentStateVersion' = answer.version
          ELSE IF answer.result = "version-mismatch"
          THEN /\ agentState' = AdoptOnMismatch(local, answer).value
               /\ agentStateVersion' = AdoptOnMismatch(local, answer).version
          ELSE UNCHANGED <<agentState, agentStateVersion>>
    /\ updatePc' = AfterAnswer(Head(toClient).result)
    /\ UNCHANGED <<handler, updatesLeft, attempts, request, serverValue, serverVersion>>
    /\ UpdFrame

-----------------------------------------------------------------------------
(* The environment of a spawned child: the part of spawnSession between    *)
(* the directory check and spawnHappyCLI.                                  *)

EnvKeys == {"CLAUDE_CODE_OAUTH_TOKEN", "CODEX_HOME", "PATH"}
EnvValues == {"x", "y"}
Absent == "absent"
Undefined == "undefined"
Tokens == {"token"}
Agents == {"claude", "codex"}

\* A Record<string, string>: a key has a value or is not in the object.
Envs == [EnvKeys -> EnvValues \cup {Absent}]
EmptyEnv == [k \in EnvKeys |-> Absent]

\* options.environmentVariables was not given.
NoVariables == [k \in EnvKeys |-> Undefined]

\* The name tmp.dirSync() gave the directory that holds Codex's auth.json.
CodexHomeDir == "codexHomeDir"

\* authEnv: empty without a token; CODEX_HOME for codex; the OAuth token for
\* any other agent.
authEnv(token, agent) ==
    IF token = Undefined THEN EmptyEnv
    ELSE IF agent = "codex"
    THEN [EmptyEnv EXCEPT !["CODEX_HOME"] = CodexHomeDir]
    ELSE [EmptyEnv EXCEPT !["CLAUDE_CODE_OAUTH_TOKEN"] = token]

\* options.environmentVariables || {}
userEnv(environmentVariables) ==
    IF environmentVariables = NoVariables THEN EmptyEnv ELSE environmentVariables

\* { ...a, ...b }: the keys of b replace those of a.
Spread(a, b) == [k \in EnvKeys |-> IF b[k] # Absent THEN b[k] ELSE a[k]]

\* An env in which the caller's variables are spread last.
ChildEnvUserLast(proc, user, auth) == Spread(Spread(proc, auth), user)

\* env: { ...process.env, ...userEnv, ...authEnv }
ChildEnv(proc, user, auth) == Spread(Spread(proc, user), auth)

NoLaunch == [token |-> Undefined, agent |-> "none",
             environmentVariables |-> NoVariables, env |-> EmptyEnv]

\* Elsewhere the daemon's own environment is held at one value.
InitEnv ==
    /\ processEnv = [EmptyEnv EXCEPT !["PATH"] = "x"]
    /\ childLaunch = NoLaunch

\* spawnSession reaches spawnHappyCLI with these options.
LaunchChild(token, agent, environmentVariables) ==
    /\ childLaunch' =
         [token |-> token, agent |-> agent,
          environmentVariables |-> environmentVariables,
          env |-> ChildEnv(processEnv, userEnv(environmentVariables),
                           authEnv(token, agent))]
    /\ UNCHANGED processEnv
    /\ EnvFrame

-----------------------------------------------------------------------------
(* The RPC handler manager of a session client and the socket it announces *)
(* its methods on (RpcHandlerManager.ts, the constructor of                *)
(* ApiSessionClient).                                                      *)

MaxMethods == 6
Methods == 1..MaxMethods

\* A new manager without socket; the socket.io socket is made with
\* autoConnect: false.
InitRpc ==
    /\ handlers = {}
    /\ socket = "null"
    /\ connection = "closed"
    /\ announced = {}

\* socket.emit('rpc-register', ...): sent on a connection that is up.
Emit(sent, method) == IF connection = "connected" THEN sent \cup {method} ELSE sent

\* A registration that stores the handler and announces nothing.
registerHandlerSilently(method) ==
    /\ handlers' = handlers \cup {method}
    /\ UNCHANGED <<socket, connection, announced>>
    /\ RpcFrame

\* registerHandler(method, handler): the handler is stored and, with a
\* socket, announced.
registerHandler(method) ==
    /\ handlers' = handlers \cup {method}
    /\ announced' = IF socket # "null" THEN Emit(announced, method) ELSE announced
    /\ UNCHANGED <<socket, connection>>
    /\ RpcFrame

\* socket.connect(): the first attempt begins.
SocketOpen ==
    /\ connection = "closed"
    /\ connection' = "connecting"
    /\ UNCHANGED <<handlers, socket, announced>>
    /\ RpcFrame

\* A 'connect' handler that takes the socket and announces nothing.
SocketConnectSilently ==
    /\ connection = "connecting"
    /\ connection' = "connected"
    /\ socket' = "set"
    /\ UNCHANGED <<handlers, announced>>
    /\ RpcFrame

\* 'connect': onSocketConnect(socket) keeps the socket and emits
\* rpc-register for every stored handler.
SocketConnect ==
    /\ connection = "connecting"
    /\ connection' = "connected"
    /\ socket' = "set"
    /\ announced' = handlers
    /\ UNCHANGED handlers
    /\ RpcFrame

\* 'disconnect': the connection and what was announced on it are gone;
\* onSocketDisconnect() drops the socket; socket.io reconnects by itself
\* (reconnection: true, reconnectionAttempts: Infinity).
SocketDisconnect ==
    /\ connection = "connected"
    /\ connection' = "connecting"
    /\ socket' = "null"
    /\ announced' = {}
    /\ UNCHANGED handlers
    /\ RpcFrame

\* 'connect_error': a connection attempt failed; onSocketDisconnect().
SocketConnectError ==
    /\ connection = "connecting"
    /\ socket' = "null"
    /\ UNCHANGED <<handlers, connection, announced>>
    /\ RpcFrame

-----------------------------------------------------------------------------
(* Specifications.                                                         *)

Init == InitRegistry /\ InitDaemon /\ InitUpdate /\ InitEnv /\ InitRpc

NextRegistry ==
    \/ \E p \in Pids : ExternalStart(p)
    \/ \E p \in Pids : ProcessDies(p)
    \/ \E c \in Calls, i \in SpawnInputs :
          spawnSession(c, i.directory, i.approved, i.mkdirOk, i.launch)
    \/ \E m \in inflight : HandleWebhook(m)
    \/ \E s \in Sids : HandleWebhookWithoutPid(s)
    \/ \E c \in Calls : WebhookTimeout(c)
    \/ \E ident \in Idents : stopSession(ident)
    \/ \E p \in Pids : onChildExited(p)
    \/ HeartbeatTick
    \/ HeartbeatTickDone

SpecRegistry == Init /\ [][NextRegistry]_vars

\* The runs of SpecRegistry in which an armed 15 s timer of a spawn call
\* fires (the daemon of SpecRegistry does not end, so its event loop runs
\* every timer that is not cleared).
SpecAwaiter ==
    /\ Init
    /\ [][NextRegistry]_vars
    /\ \A c \in Calls : WF_vars(WebhookTimeout(c))

\* The steps every run of the daemons can take.
NextNominal ==
    \/ DaemonStart
    \/ Upgrade
    \/ \E p \in Procs : StartupVersionCheck(p)
    \/ \E p \in Procs, httpOk \in BOOLEAN : StopDaemonRequest(p, httpOk)
    \/ \E p \in Procs : StopDaemonWaitOver(p)
    \/ \E p \in Procs : StopDaemonKill(p)
    \/ \E p \in Procs : AcquireLockAttempt(p)
    \/ \E p \in Procs : Authenticate(p, TRUE)
    \/ \E p \in Procs : StartControlServer(p, TRUE)
    \/ \E p \in Procs : WriteInitialState(p, TRUE)
    \/ \E p \in Procs : RegisterMachine(p, TRUE)
    \/ \E p \in Procs, spawnOk \in BOOLEAN : TickStart(p, spawnOk)
    \/ \E p \in Procs : TickFinish(p)
    \/ \E p \in Procs : HangExit(p)
    \/ \E p \in Procs : SafetyNetExit(p)
    \/ \E p \in Procs : CleanupBegin(p)
    \/ \E p \in Procs : CleanupPushed(p, TRUE)
    \/ \E p \in Procs : CleanupServerStopped(p, TRUE)
    \/ \E p \in Procs : CleanupStateCleared(p, TRUE)
    \/ \E p \in Procs : CleanupLockReleased(p, TRUE)

\* Signals, kills, and the steps of startup and cleanup that throw.
NextFaults ==
    \/ \E p \in Procs, source \in {"os-signal", "happy-app"} : ShutdownRequested(p, source)
    \/ \E p \in Procs : Crash(p)
    \/ \E p \in Procs : Authenticate(p, FALSE)
    \/ \E p \in Procs : StartControlServer(p, FALSE)
    \/ \E p \in Procs : WriteInitialState(p, FALSE)
    \/ \E p \in Procs : RegisterMachine(p, FALSE)
    \/ \E p \in Procs : CleanupPushed(p, FALSE)
    \/ \E p \in Procs : CleanupServerStopped(p, FALSE)
    \/ \E p \in Procs : CleanupStateCleared(p, FALSE)
    \/ \E p \in Procs : CleanupLockReleased(p, FALSE)

Next == NextNominal \/ NextFaults

Spec == Init /\ [][Next]_vars

\* What one daemon process does next by itself.
ProcessStep(p) ==
    \/ StartupVersionCheck(p)
    \/ \E httpOk \in BOOLEAN : StopDaemonRequest(p, httpOk)
    \/ StopDaemonWaitOver(p)
    \/ StopDaemonKill(p)
    \/ AcquireLockAttempt(p)
    \/ Authenticate(p, TRUE)
    \/ StartControlServer(p, TRUE)
    \/ WriteInitialState(p, TRUE)
    \/ RegisterMachine(p, TRUE)
    \/ CleanupBegin(p)
    \/ CleanupPushed(p, TRUE)
    \/ CleanupServerStopped(p, TRUE)
    \/ CleanupStateCleared(p, TRUE)
    \/ CleanupLockReleased(p, TRUE)

\* Fault-free runs in which every process keeps running its event loop and
\* every armed timer fires.
SpecHandoff ==
    /\ Init
    /\ [][NextNominal]_vars
    /\ \A p \in Procs : /\ WF_vars(ProcessStep(p))
                        /\ WF_vars(TickFinish(p))
                        /\ WF_vars(HangExit(p))
                        /\ WF_vars(SafetyNetExit(p))

\* All runs of Spec in which an armed timeout of a live process fires (the
\* safety net of requestShutdown, the 10 s hang of an outdated daemon);
\* nothing else is assumed to make progress.
SpecTimers ==
    /\ Init
    /\ [][Next]_vars
    /\ \A p \in Procs : WF_vars(SafetyNetExit(p)) /\ WF_vars(HangExit(p))
\* What can go wrong inside one session operation: mkdir of the directory,
\* tmp.dirSync() or the write of auth.json for a Codex token, a throw of
\* spawnHappyCLI, a child without pid, the webhook timeout, and the SIGTERM
\* of stopSession.
SessionFailures ==
    {"mkdir", "tmp-dir", "auth-write", "launch", "no-pid", "timeout", "signal"}

\* Is the failure outside every try block and every awaited promise of the
\* operation. fs is fs/promises and the promise of
\* fs.writeFile(join(codexHomeDir.name, 'auth.json'), options.token) is
\* neither awaited nor given a catch: its rejection is an unhandled
\* rejection of the process. Every other failure is caught or returned.
Unhandled(failure) == failure = "auth-write"

\* A session operation of a running daemon fails: the failure is the error
\* result of the operation (failed is the last of them); an unhandled
\* rejection runs the process's 'unhandledRejection' handler, which calls
\* requestShutdown('exception').
SessionOperationFails(p, failure) ==
    /\ daemon[p].pc = "running"
    /\ daemon' = [daemon EXCEPT ![p] =
           IF Unhandled(failure)
           THEN requestShutdown([@ EXCEPT !.failed = failure], "exception")
           ELSE [@ EXCEPT !.failed = failure]]
    /\ UNCHANGED <<stateFile, lockFile, projectVersion>>
    /\ DaemonFrame

NextOperations ==
    \/ Next
    \/ \E p \in Procs, failure \in SessionFailures :
          SessionOperationFails(p, failure)

\* A tick whose read of the package.json on disk throws (the file is
\* missing or half written during an upgrade): readFileSync and JSON.parse
\* stand outside every try block, so the async callback rejects with the
\* flag still set; the rejection is unhandled and the process's handler
\* calls requestShutdown('exception'). No body is in flight afterwards.
TickVersionReadThrows(p) ==
    /\ daemon[p].heartbeatOn
    /\ ~HeartbeatRunning(daemon[p])
    /\ daemon' = [daemon EXCEPT ![p] =
           requestShutdown([@ EXCEPT !.tickAt = "thrown"], "exception")]
    /\ UNCHANGED <<stateFile, lockFile, projectVersion>>
    /\ DaemonFrame

\* A tick whose writeDaemonState throws: the catch logs, the flag is reset.
TickWriteFails(p) ==
    /\ daemon[p].tickAt = "read"
    /\ daemon' = [daemon EXCEPT ![p] =
           [(IF TakenOver(p)
             THEN requestShutdown(@, "exception") ELSE @)
              EXCEPT !.tickAt = "idle", !.bodies = @ - 1]]
    /\ UNCHANGED <<stateFile, lockFile, projectVersion>>
    /\ DaemonFrame

NextTickFaults ==
    \/ Next
    \/ \E p \in Procs : TickVersionReadThrows(p)
    \/ \E p \in Procs : TickWriteFails(p)

\* The runs of Spec in which reads and writes inside a tick fail.
SpecTickFaults == Init /\ [][NextTickFaults]_vars

\* The runs of Spec in which session operations of the running daemons fail.
SpecOperations == Init /\ [][NextOperations]_vars

\* The runs of Spec and those in which somebody removes the daemon's files
\* by hand, so that a second daemon can start beside a running one. The
\* continuation of the awaited shutdown promise runs once it is resolved.
NextTakeover == Next \/ StateFilesRemoved

SpecTakeover ==
    /\ Init
    /\ [][NextTakeover]_vars
    /\ \A p \in Procs : WF_vars(CleanupBegin(p))
\* All runs of Spec, faults included, in which no process stays for ever at
\* an await of its main flow that can return.
SpecRecovery ==
    /\ Init
    /\ [][Next]_vars
    /\ \A p \in Procs : WF_vars(ProcessStep(p))

NextUpdate ==
    \/ \E h \in Mutators : updateAgentState(h)
    \/ EmitUpdateState
    \/ \E fails \in BOOLEAN : AuthorityHandles(fails)
    \/ \E object \in SUBSET Keys, push \in BOOLEAN : OtherClientWrites(object, push)
    \/ HandleUpdate
    \/ HandleAnswer

SpecUpdate == Init /\ [][NextUpdate]_vars

\* The authority sends an answer from the handler of the write it answers
\* and an update event from the handler of another client's write; nothing
\* orders the two handlers' sends, so an update event may reach the client
\* before an answer that was produced first.
UpdateOvertakes(i) ==
    /\ i \in 1..(Len(toClient) - 1)
    /\ toClient[i].t = "ack"
    /\ toClient[i + 1].t = "update"
    /\ toClient' = [toClient EXCEPT ![i] = toClient[i + 1], ![i + 1] = toClient[i]]
    /\ UNCHANGED <<agentState, agentStateVersion, handler, updatePc, updatesLeft,
                   attempts, answered, answeredVersion, request, serverValue,
                   serverVersion>>
    /\ UpdFrame

NextUnordered ==
    \/ NextUpdate
    \/ \E i \in 1..(MaxUpdates + MaxOtherVersion) : UpdateOvertakes(i)

\* The runs of SpecUpdate and those in which update events overtake answers.
SpecUnordered == Init /\ [][NextUnordered]_vars

\* The daemon may have been started with any environment; every spawn call
\* brings its own token, agent and variables.
InitAnyEnv ==
    /\ InitRegistry /\ InitDaemon /\ InitUpdate /\ InitRpc
    /\ processEnv \in Envs
    /\ childLaunch = NoLaunch

NextEnv ==
    \E token \in Tokens \cup {Undefined}, agent \in Agents,
       environmentVariables \in Envs \cup {NoVariables} :
        LaunchChild(token, agent, environmentVariables)

SpecEnv == InitAnyEnv /\ [][NextEnv]_vars

NextRpc ==
    \/ \E method \in Methods : registerHandler(method)
    \/ SocketOpen
    \/ SocketConnect
    \/ SocketDisconnect
    \/ SocketConnectError

SpecRpc == Init /\ [][NextRpc]_vars

-----------------------------------------------------------------------------
(* Properties of the session registry (checked under SpecRegistry).        *)

\* list(): the tracked sessions of pid p.
Listed(p) == {e \in getCurrentChildren : e.pid = p}

\* C4 as stated: whenever the report of the child of a spawn call is handled
\* before the call's timer has fired, the call returns success with the
\* reported id and list() holds exactly one session for the pid, startedBy
\* daemon with that id - whatever else has happened in between.
C4_AnyInterleaving ==
    [][\A m \in inflight :
         (HandleWebhook(m) /\ m.call # 0 /\ calls[m.call].st # "error") =>
            /\ calls'[m.call].st = "success"
            /\ calls'[m.call].sid = m.sid
            /\ Listed(m.pid)' = {[pid |-> m.pid, startedBy |-> "daemon",
                                  happySessionId |-> m.sid]}]_vars

\* C4: spawn/report roundtrip. When the report (pid p, session id s) of the
\* child a spawn call launched is handled while the tracked session and the
\* awaiter that call registered for p are both still in place, the call
\* returns success with s, its awaiter is gone, and list() holds exactly one
\* session for p, startedBy daemon with id s; the sessions of other pids
\* are untouched.
C4_SpawnReportRoundtrip ==
    [][\A m \in inflight :
         (/\ HandleWebhook(m)
          /\ m.call # 0
          /\ pidToTrackedSession[m.pid].childProcess = m.call
          /\ pidToAwaiter[m.pid] = m.call) =>
            /\ calls[m.call].st = "waiting"
            /\ calls'[m.call].st = "success"
            /\ calls'[m.call].sid = m.sid
            /\ pidToAwaiter'[m.pid] = 0
            /\ Listed(m.pid)' = {[pid |-> m.pid, startedBy |-> "daemon",
                                  happySessionId |-> m.sid]}
            /\ \A q \in Pids \ {m.pid} :
                  pidToTrackedSession'[q] = pidToTrackedSession[q]]_vars

\* Two concurrent spawn calls have both returned the id their own child
\* reported, and both sessions are listed as the daemon's.
C4_Witness ==
    \E p, q \in Pids :
        /\ p # q
        /\ \A r \in {p, q} :
              /\ pidToTrackedSession[r].startedBy = "daemon"
              /\ calls[pidToTrackedSession[r].childProcess].st = "success"
              /\ calls[pidToTrackedSession[r].childProcess].sid =
                    pidToTrackedSession[r].happySessionId
              /\ os[r].sid = pidToTrackedSession[r].happySessionId

\* C5: spawn timeout. When the 15 s timer of a spawn call fires and no
\* self-report for its pid p has arrived since the call registered its awaiter,
\* the call returns an error, no awaiter is left for p, and the timeout removes
\* no tracked session: an entry for p, if there is one, is startedBy daemon
\* without session id.
C5_SpawnTimeout ==
    [][\A c \in Calls :
         (WebhookTimeout(c) /\ calls[c].st = "waiting" /\ ~calls[c].reportSeen) =>
            LET p == calls[c].pid IN
            /\ calls'[c].st = "error"
            /\ pidToAwaiter'[p] = 0
            /\ pidToTrackedSession' = pidToTrackedSession
            /\ pidToTrackedSession'[p] # NoSession =>
                  /\ pidToTrackedSession'[p].startedBy = "daemon"
                  /\ pidToTrackedSession'[p].happySessionId = NoId]_vars

\* The only process ever started was spawned by a call that has failed; its
\* report is still on the wire, its entry is unconfirmed and has no awaiter.
C5_Witness ==
    /\ nextSid = 2
    /\ inflight # {}
    /\ \E c \in Calls : calls[c].st = "error"
    /\ \E p \in Pids : /\ pidToTrackedSession[p].startedBy = "daemon"
                        /\ pidToTrackedSession[p].happySessionId = NoId
                        /\ pidToAwaiter[p] = 0

\* C6: external session tracking. Handling a self-report with session id s for
\* a pid p that is not tracked adds the entry (p, external, s), changes no
\* other entry, removes no awaiter and settles no spawn call; list() then
\* holds that entry.
C6_ExternalSessionTracking ==
    [][\A m \in inflight :
         (HandleWebhook(m) /\ pidToTrackedSession[m.pid] = NoSession) =>
            /\ pidToTrackedSession'[m.pid].startedBy = "external"
            /\ pidToTrackedSession'[m.pid].happySessionId = m.sid
            /\ \A q \in Pids \ {m.pid} :
                  pidToTrackedSession'[q] = pidToTrackedSession[q]
            /\ pidToAwaiter' = pidToAwaiter
            /\ \A c \in Calls : calls'[c].st = calls[c].st
            /\ Listed(m.pid)' = {[pid |-> m.pid, startedBy |-> "external",
                                  happySessionId |-> m.sid]}]_vars

\* An external entry on a pid for which a spawn call is still waiting: the
\* report was taken for an untracked pid and the awaiter was left alone.
C6_Witness ==
    \E p \in Pids : /\ pidToTrackedSession[p].startedBy = "external"
                    /\ pidToTrackedSession[p].happySessionId # NoId
                    /\ pidToAwaiter[p] # 0
                    /\ calls[pidToAwaiter[p]].st = "waiting"

\* C7: idempotent stop. stopSession(s) for a session id s that is tracked
\* returns true and leaves no entry with that id; stopSession(s) when no entry
\* has the id s (as after the first stop, with no registration in between)
\* returns false and changes nothing.
C7_IdempotentStop ==
    [][\A s \in Sids :
         stopSession([kind |-> "sid", v |-> s]) =>
            IF \E p \in Pids : pidToTrackedSession[p].happySessionId = s
            THEN /\ stopFound'
                 /\ \A p \in Pids : pidToTrackedSession'[p].happySessionId # s
            ELSE /\ ~stopFound'
                 /\ UNCHANGED <<pidToTrackedSession, pidToAwaiter, calls, os,
                                inflight>>]_vars

\* A stop has just returned true for the id a spawn call had returned, and no
\* entry carries that id any more.
C7_Witness ==
    /\ stopFound
    /\ \E c \in Calls :
          /\ calls[c].st = "success"
          /\ calls[c].stopped
          /\ \A p \in Pids : pidToTrackedSession[p].happySessionId # calls[c].sid

\* C8: dead-session sweep. A heartbeat tick that the running flag does not
\* skip leaves no tracked pid in list() whose process is not alive, and leaves
\* every tracked pid whose process is alive as it was.
C8_DeadSessionSweep ==
    [][(HeartbeatTick /\ ~heartbeatRunning) =>
         \A p \in Pids :
            pidToTrackedSession[p] # NoSession =>
               IF IsAlive(p)
               THEN pidToTrackedSession'[p] = pidToTrackedSession[p]
               ELSE Listed(p)' = {}]_vars

\* Right after a tick: of two terminal sessions that both reported, the one
\* still alive is tracked and the dead one is not.
C8_Witness ==
    /\ tickPc = "read"
    /\ nextSid = 3
    /\ inflight = {}
    /\ \A c \in Calls : calls[c].st = "new"
    /\ \E p, q \in Pids : /\ pidToTrackedSession[p].startedBy = "external"
                           /\ IsAlive(p)
                           /\ ~IsAlive(q)
                           /\ pidToTrackedSession[q] = NoSession

\* The spawn calls that have returned success, and those of them whose
\* session id has not been stopped since.
Returned == {c \in Calls : calls[c].st = "success"}
Unstopped == {c \in Returned : ~calls[c].stopped}

\* Every spawn call made so far has returned success, and every happy process
\* ever started is the child of one of them.
OnlySuccessfulSpawns ==
    /\ \A c \in Calls : calls[c].st \in {"new", "success"}
    /\ nextSid - 1 = Cardinality(Returned)

\* The process that reported the id call c returned has exited.
ChildExited(c) ==
    ~\E p \in Pids : os[p].sid = calls[c].sid /\ os[p].st \in {"running", "dying"}

\* list() is one daemon entry for each call of cs, with the id the call
\* returned.
ListsExactly(cs) ==
    /\ Cardinality(getCurrentChildren) = Cardinality(cs)
    /\ \A e \in getCurrentChildren : e.startedBy = "daemon"
    /\ {e.happySessionId : e \in getCurrentChildren} = {calls[c].sid : c \in cs}
    /\ Cardinality({calls[c].sid : c \in cs}) = Cardinality(cs)

\* C10 as stated: after N spawn calls that each returned success (N = 0 on a
\* fresh daemon), and before any of the returned ids is stopped, list() has
\* exactly N entries, all startedBy daemon, with distinct ids; the stop of a
\* returned id (not stopped before) returns true; once all N are stopped,
\* list() is empty.
C10_AnySuccessfulSpawns ==
    /\ [](OnlySuccessfulSpawns /\ Unstopped = Returned => ListsExactly(Returned))
    /\ [](OnlySuccessfulSpawns /\ Unstopped = {} => getCurrentChildren = {})
    /\ [][\A c \in Unstopped :
             (OnlySuccessfulSpawns /\ stopSession([kind |-> "sid", v |-> calls[c].sid]))
                => stopFound']_vars

\* C10: registry accounting. After N spawn calls that each returned success
\* (N = 0 on a fresh daemon), as long as none of the N children has exited,
\* list() has exactly one entry for each returned id not stopped yet (N before
\* any stop), all startedBy daemon, with distinct ids; the stop of a returned
\* id whose child has not exited returns true; once all N are stopped, list()
\* is empty.
C10_RegistryAccounting ==
    /\ []((OnlySuccessfulSpawns /\ \A c \in Unstopped : ~ChildExited(c))
            => ListsExactly(Unstopped))
    /\ [](OnlySuccessfulSpawns /\ Unstopped = {} => getCurrentChildren = {})
    /\ [][\A c \in Unstopped :
             (/\ OnlySuccessfulSpawns
              /\ ~ChildExited(c)
              /\ stopSession([kind |-> "sid", v |-> calls[c].sid]))
                => stopFound']_vars

\* Two spawn calls have returned, neither child has exited, one of the two
\* ids has just been stopped and the other is still listed.
C10_Witness ==
    /\ OnlySuccessfulSpawns
    /\ Cardinality(Returned) = 2
    /\ Cardinality(Unstopped) = 1
    /\ \A c \in Returned : ~ChildExited(c)
    /\ stopFound
    /\ Cardinality(getCurrentChildren) = 1

-----------------------------------------------------------------------------
(* Properties of the daemon life cycle.                                    *)

\* A daemon of the starting process's own version is recorded and alive.
SameVersionRunning(p) ==
    /\ stateFile # NoState
    /\ stateFile.pid # p
    /\ Alive(stateFile.pid)
    /\ stateFile.startedWithCliVersion = daemon[p].currentCliVersion

\* C1: when a daemon whose recorded startedWithCliVersion equals the version
\* of the starting process is running, the startup check of startDaemon ends
\* the starting process with exit code 0; the process has made no attempt at
\* the lock, and the step changes neither the state file nor the lock file
\* nor any other process, so the record of the first daemon stays as it was.
C1_SameVersionSecondStart ==
    [][\A p \in Procs :
         (StartupVersionCheck(p) /\ SameVersionRunning(p))
         => /\ daemon'[p].pc = "exit0"
            /\ daemon[p].lockAttempts = 0
            /\ ~daemon[p].daemonLockHandle
            /\ stateFile' = stateFile
            /\ lockFile' = lockFile
            /\ \A q \in Procs \ {p} : daemon'[q] = daemon[q]]_vars

\* A second process has exited with code 0 while the first daemon, of the
\* installed version, runs on with its record and its lock.
C1_Witness ==
    \E p, q \in Procs :
        /\ q < p
        /\ daemon[p].pc = "exit0"
        /\ daemon[q].pc = "running"
        /\ daemon[q].currentCliVersion = projectVersion
        /\ daemon[q].shutdownSource = "none"
        /\ stateFile = OwnState(q)
        /\ lockFile = q

\* The process is past acquireDaemonLock and has not yet released the lock.
PastLock(p) ==
    daemon[p].pc \in {"auth", "server", "writeState", "register", "running",
                      "sdPush", "sdServer", "sdClear", "sdRelease"}

LockHolders == {p \in Procs : Alive(p) /\ daemon[p].daemonLockHandle}

\* C2: in every interleaving of daemon processes at most one live process
\* holds the lock, and only the holder, named by the lock file, is past the
\* lock acquisition (where the control server is started and the state file
\* written); a process whose fifth attempt fails exits with code 0, and that
\* step leaves the state file, the lock file and every other process alone.
C2_LockMutualExclusion ==
    /\ [](/\ Cardinality(LockHolders) <= 1
          /\ \A p \in Procs : (PastLock(p) \/ ControlServerUp(p) \/ MachineConnected(p))
                                  => (p \in LockHolders /\ lockFile = p)
          /\ \A p \in Procs : (stateFile # NoState /\ stateFile.pid = p /\ Alive(p))
                                  => p \in LockHolders)
    /\ [][\A p \in Procs :
            (AcquireLockAttempt(p) /\ ~LockFree
                /\ daemon[p].lockAttempts = LockMaxAttempts - 1)
            => /\ daemon'[p].pc = "exit0"
               /\ stateFile' = stateFile
               /\ lockFile' = lockFile
               /\ \A q \in Procs \ {p} : daemon'[q] = daemon[q]]_vars

\* A process is about to make its last attempt at a lock another live
\* process holds.
C2_Witness ==
    \E p, q \in Procs :
        /\ p # q
        /\ daemon[p].pc = "lock"
        /\ daemon[p].lockAttempts = LockMaxAttempts - 1
        /\ PastLock(q)
        /\ lockFile = q

\* Process p starts while daemon q, started with another version and not
\* shutting down, is recorded in the state file.
OldVersionRunning(p, q) ==
    /\ p # q
    /\ daemon[p].pc = "check"
    /\ stateFile = OwnState(q)
    /\ daemon[q].pc = "running"
    /\ daemon[q].shutdownSource = "none"
    /\ daemon[q].currentCliVersion # daemon[p].currentCliVersion

HandedOver(p, q) == ~Alive(q) /\ stateFile = OwnState(p) /\ Alive(p)

\* A third daemon process takes part.
ThirdStarter(p, q) == \E r \in Procs \ {p, q} : daemon[r].pc # "idle"

-----------------------------------------------------------------------------
(* Properties of the optimistic update.                                    *)

\* C9: optimistic update retry. A version-mismatch answer leaves the client
\* at the authority's version and value (or newer ones it already had) and
\* makes the callback run again; every run applies the handler of the call
\* to the local value; whenever the client is at the authority's version its
\* value is the authority's, so the write the authority accepts is the
\* handler applied once to the authority's latest value; and the success
\* answer leaves the client with the returned value and version, its value
\* being the handler applied once to the value it had.
C9_OptimisticUpdateRetry ==
    /\ [](/\ agentStateVersion <= serverVersion
          /\ agentStateVersion = serverVersion => agentState = Opened(serverValue))
    /\ [][(HandleAnswer /\ Head(toClient).result = "version-mismatch")
            => /\ updatePc' = "attempt"
               /\ handler' = handler
               /\ agentStateVersion' >= Head(toClient).version
               /\ agentStateVersion' = Head(toClient).version
                      => agentState' = Opened(Head(toClient).agentState)]_vars
    /\ [][EmitUpdateState
            => request' = Some([expectedVersion |-> agentStateVersion,
                                agentState |-> Sealed(Updated(handler, agentState))])]_vars
    /\ [][(AuthorityHandles(FALSE) /\ The(request).expectedVersion = serverVersion)
            => /\ serverValue' = Sealed(Updated(handler, Opened(serverValue)))
               /\ serverVersion' = serverVersion + 1]_vars
    /\ [][(HandleAnswer /\ Head(toClient).result = "success")
            => /\ agentState' = Opened(Head(toClient).agentState)
               /\ agentStateVersion' = Head(toClient).version
               /\ agentState' = Updated(handler, agentState)
               /\ updatePc' = "idle"]_vars

\* A call has ended with success after at least one version mismatch and the
\* client holds the authority's value and version.
C9_Witness ==
    /\ updatePc = "idle"
    /\ answered = "success"
    /\ attempts >= 2
    /\ toClient = <<>>
    /\ agentStateVersion = serverVersion
    /\ agentState = Opened(serverValue)
    /\ agentState # Null
    /\ handler.op = "toggle"

-----------------------------------------------------------------------------
(* Properties of spawnSession's directory check (SpecRegistry).            *)

\* C11: directory approval. A spawn into a directory that does not exist,
\* with creation not approved, returns requestToApproveDirectoryCreation with
\* that directory; it creates no directory, launches no child, and leaves the
\* registry, the awaiter map and the reports on the wire as they were. With
\* creation approved and mkdir succeeding the directory exists afterwards,
\* and a child that is launched is tracked as the daemon's own with
\* directoryCreated = true and has its awaiter registered.
C11_DirectoryApproval ==
    [][\A c \in Calls, i \in SpawnInputs :
         (spawnSession(c, i.directory, i.approved, i.mkdirOk, i.launch)
             /\ i.directory \notin fsDirs)
         => IF ~i.approved
            THEN /\ calls'[c].st = "approval"
                 /\ calls'[c].directory = i.directory
                 /\ UNCHANGED <<fsDirs, os, pidToTrackedSession, pidToAwaiter,
                                inflight, nextSid>>
            ELSE IF i.mkdirOk
            THEN /\ i.directory \in fsDirs'
                 /\ i.launch \in Pids
                      => /\ os'[i.launch].st = "running"
                         /\ os'[i.launch].child
                         /\ pidToTrackedSession'[i.launch].startedBy = "daemon"
                         /\ pidToTrackedSession'[i.launch].directoryCreated
                         /\ pidToTrackedSession'[i.launch].childProcess = c
                         /\ pidToAwaiter'[i.launch] = c
                         /\ calls'[c].st = "waiting"
            ELSE /\ calls'[c].st = "error"
                 /\ UNCHANGED <<fsDirs, os, pidToTrackedSession, pidToAwaiter,
                                inflight, nextSid>>]_vars

\* One call was answered with the request for approval, and a later,
\* approved call has created the directory and runs a child in it.
C11_Witness ==
    \E c \in Calls, p \in Pids :
        /\ calls[c].st = "approval"
        /\ calls[c].directory \in fsDirs
        /\ calls[c].directory # "tmp"
        /\ pidToTrackedSession[p].startedBy = "daemon"
        /\ pidToTrackedSession[p].directoryCreated
        /\ os[p].st = "running"

-----------------------------------------------------------------------------
(* Properties of the shutdown of a running daemon.                         *)

\* The positions of a daemon that has reached `running`: the await of the
\* shutdown promise and the steps of cleanupAndShutdown.
CleanupPcs == {"sdPush", "sdServer", "sdClear", "sdRelease"}
RunningPcs == {"running"} \cup CleanupPcs

\* The process ends by a process.exit of its own.
ExitsByItself(p) == Alive(p) /\ daemon'[p].pc \in {"exit0", "exit1"}

\* C12: graceful shutdown. A running daemon for which a shutdown has been
\* requested terminates only at the end of the shutdown sequence, with exit
\* code 0, its state record gone from the state file and its lock released.
C12_GracefulShutdown ==
    [][\A p \in Procs :
         (/\ daemon[p].pc \in RunningPcs
          /\ daemon[p].shutdownSource # "none"
          /\ ExitsByItself(p))
         => /\ daemon[p].pc = "sdRelease"
            /\ daemon'[p].pc = "exit0"
            /\ stateFile'.pid # p
            /\ lockFile' # p]_vars

\* What the shutdown sequence of p has taken from the shutdown promise is the
\* source the promise holds.
PayloadIsPromised(p) ==
    /\ daemon[p].pc \in CleanupPcs => daemon[p].source = daemon[p].shutdownSource
    /\ daemon[p].pushedSource # "none"
         => daemon[p].pushedSource = daemon[p].shutdownSource

\* C13: single-fire shutdown signalling. The shutdown promise keeps the source
\* of the first request for as long as the process lives, so a later request
\* changes nothing; the source handed to cleanupAndShutdown and the
\* shutdownSource pushed to the remote service are that first source; and a
\* sequence that has begun is neither begun again nor given another payload.
C13_SingleFireShutdown ==
    /\ [](\A p \in Procs : PayloadIsPromised(p))
    /\ [][\A p \in Procs :
            /\ (daemon[p].shutdownSource # "none" /\ daemon'[p].pc \notin ExitedPcs)
                 => daemon'[p].shutdownSource = daemon[p].shutdownSource
            /\ (daemon[p].pc \in CleanupPcs /\ daemon'[p].pc \notin ExitedPcs)
                 => /\ daemon'[p].pc \in CleanupPcs
                    /\ daemon'[p].source = daemon[p].source
                    /\ daemon'[p].pc = "sdPush" => daemon[p].pc = "sdPush"
                    /\ daemon[p].pushedSource # "none"
                         => daemon'[p].pushedSource = daemon[p].pushedSource]_vars

\* A daemon has pushed the source of a signal or of the app although a newer
\* daemon's stopDaemon has asked it to shut down as well ('happy-cli').
C13_Witness ==
    \E p, q \in Procs :
        /\ daemon[p].pushedSource \in {"os-signal", "happy-app"}
        /\ daemon[q].pc = "stopWait"
        /\ daemon[q].stopTarget = p

\* The place of a step in cleanupAndShutdown.
Rank(pc) ==
    CASE pc = "sdPush" -> 1
      [] pc = "sdServer" -> 2
      [] pc = "sdClear" -> 3
      [] pc = "sdRelease" -> 4
      [] OTHER -> 5

\* C14: shutdown ordering. The sequence begins by stopping the heartbeat
\* timer; then it pushes the shutting-down state and disconnects the machine
\* client while the control server still listens; then it stops the control
\* server; then it clears the state file, still holding the lock; then it
\* releases the lock and exits. Every step is taken at most once and in this
\* order, unless the process ends before; so the lock is released after the
\* state was cleared and never while the control server listens.
C14_ShutdownOrdering ==
    /\ [](\A p \in Procs : daemon[p].pc \in CleanupPcs => ~daemon[p].heartbeatOn)
    /\ [][\A p \in Procs :
            LET d == daemon[p]
                e == daemon'[p]
            IN /\ (d.pc \in CleanupPcs /\ e.pc # d.pc)
                    => \/ e.pc \in ExitedPcs
                       \/ e.pc \in CleanupPcs /\ Rank(e.pc) = Rank(d.pc) + 1
               /\ (d.pc \notin CleanupPcs /\ e.pc \in CleanupPcs)
                    => d.pc = "running" /\ e.pc = "sdPush" /\ e.pushedSource = "none"
               /\ (d.pc = "sdPush" /\ e.pc = "sdServer")
                    => /\ e.pushedSource # "none"
                       /\ MachineConnected(p) /\ ~MachineConnected(p)'
                       /\ ControlServerUp(p)'
                       /\ UNCHANGED <<stateFile, lockFile>>
               /\ (d.pc = "sdServer" /\ e.pc = "sdClear")
                    => /\ ControlServerUp(p) /\ ~ControlServerUp(p)'
                       /\ UNCHANGED <<stateFile, lockFile>>
               /\ (d.pc = "sdClear" /\ e.pc = "sdRelease")
                    => /\ stateFile' = NoState
                       /\ lockFile = p /\ lockFile' = p
               /\ (Alive(p) /\ lockFile = p /\ lockFile' # p)
                    => /\ d.pc = "sdRelease" /\ e.pc = "exit0"
                       /\ ~ControlServerUp(p)
                       /\ lockFile' = 0]_vars

\* A daemon has gone through the whole sequence: it has exited with 0 and
\* has left neither a state record nor the lock, while another process waits
\* for the lock it held.
C14_Witness ==
    \E p, q \in Procs :
        /\ daemon[p].pc = "exit0"
        /\ daemon[q].pc = "lock"
        /\ daemon[q].stopTarget = p
        /\ stateFile = NoState
        /\ lockFile = 0

\* A shutdown of p has been requested and p has not ended.
ShutdownPending(p) == Alive(p) /\ daemon[p].shutdownSource # "none"

\* C15: termination. After a shutdown request raised at any point from the
\* startup check on, the process ends, whatever else makes progress or hangs;
\* the safety-net timer ends it with exit code 1, and only a process for
\* which a shutdown was requested.
C15_ShutdownTerminates ==
    /\ \A p \in Procs : ShutdownPending(p) ~> ~Alive(p)
    /\ [][\A p \in Procs :
            SafetyNetExit(p) => ShutdownPending(p) /\ daemon'[p].pc = "exit1"]_vars

\* A shutdown was requested while the daemon was still starting up: it holds
\* the lock and has not yet written its state record.
C15_Witness ==
    \E p \in Procs :
        /\ ShutdownPending(p)
        /\ daemon[p].pc \in {"auth", "server", "writeState"}
        /\ lockFile = p

-----------------------------------------------------------------------------
(* Properties of the heartbeat tick of a daemon process.                   *)

\* C16: heartbeat non-overlap. At most one body of the interval callback is
\* executing in a process, and a firing of the interval while a body is
\* suspended returns at once: it checks no version, starts no daemon, reads
\* and writes no state file and changes nothing in the process.
C16_HeartbeatNonOverlap ==
    /\ [](\A p \in Procs : daemon[p].bodies <= 1)
    /\ [](\A p \in Procs : daemon[p].bodies = 1 <=> daemon[p].tickAt # "idle")
    /\ [][\A p \in Procs, spawnOk \in BOOLEAN :
            (TickStart(p, spawnOk) /\ daemon[p].tickAt # "idle")
            => UNCHANGED <<daemon, stateFile, lockFile, projectVersion>>]_vars

\* A body is suspended at readDaemonState with the interval armed, and the
\* version on disk has changed since the body compared it: a second body
\* would now take the outdated path.
C16_Witness ==
    \E p \in Procs :
        /\ daemon[p].tickAt = "read"
        /\ daemon[p].heartbeatOn
        /\ projectVersion # daemon[p].currentCliVersion

\* The tick of p is in the hang of the outdated branch.
Hanging(p) == daemon[p].tickAt = "hang"

\* C17: version mismatch. A tick that finds another version on disk clears
\* the interval, tries to start a new daemon, which then runs the version on
\* disk, goes into its hang whether or not the start succeeded, and writes no
\* state record. While it hangs no tick body begins and the process writes no
\* state record; the hang ends with the end of the process: its own
\* process.exit(0), or earlier if it is stopped.
C17_VersionMismatchTick ==
    /\ [](\A p \in Procs : Hanging(p) => ~daemon[p].heartbeatOn /\ daemon[p].bodies = 1)
    /\ [][\A p \in Procs :
            /\ \A spawnOk \in BOOLEAN :
                 (/\ TickStart(p, spawnOk)
                  /\ daemon[p].tickAt = "idle"
                  /\ projectVersion # daemon[p].currentCliVersion)
                 => /\ Hanging(p)'
                    /\ ~daemon'[p].heartbeatOn
                    /\ stateFile' = stateFile
                    /\ (spawnOk /\ \E q \in Procs : daemon[q].pc = "idle")
                         => /\ daemon'[NextProc].pc = "check"
                            /\ daemon'[NextProc].currentCliVersion = projectVersion
            /\ Hanging(p)
                 => /\ Hanging(p)' \/ daemon'[p].pc \in ExitedPcs
                    /\ stateFile' # stateFile => stateFile'.pid # p
            /\ HangExit(p) => daemon'[p].pc = "exit0"]_vars
    /\ \A p \in Procs : Hanging(p) ~> ~Alive(p)

\* An outdated daemon hangs while the daemon it has started, of the version
\* now on disk, waits for it to stop.
C17_Witness ==
    \E p, q \in Procs :
        /\ Hanging(p)
        /\ daemon[q].pc = "stopWait"
        /\ daemon[q].stopTarget = p
        /\ daemon[q].currentCliVersion # daemon[p].currentCliVersion

\* C18: the exit of an outdated daemon after its hang is the only end a daemon
\* that has reached `running` puts to itself without the whole shutdown
\* sequence; every other process.exit of a running daemon is the last step of
\* the sequence, after the clearing of the state file, and releases the lock.
C18_OnlyMismatchSkipsCleanup ==
    [][\A p \in Procs :
         (daemon[p].pc \in RunningPcs /\ ExitsByItself(p))
         => \/ HangExit(p)
            \/ /\ daemon[p].pc = "sdRelease"
               /\ daemon'[p].pc = "exit0"
               /\ lockFile' # p]_vars

\* The tick of p has found the record of another pid, and the main flow of
\* p still awaits the shutdown promise, now resolved with 'exception'.
TakeoverSeen(p) ==
    daemon[p].pc = "running" /\ daemon[p].shutdownSource = "exception"

\* C19: takeover detection. A tick that reads a state record with a pid other
\* than its own raises a shutdown request: the promise is resolved, with
\* source 'exception' unless an earlier request resolved it, and the daemon
\* goes on to its shutdown sequence, which takes that source. A tick that
\* reads no record, or its own, raises no request.
C19_TakeoverDetection ==
    /\ [][\A p \in Procs :
            TickFinish(p)
            => IF stateFile # NoState /\ stateFile.pid # p
               THEN /\ daemon'[p].shutdownSource # "none"
                    /\ daemon[p].shutdownSource = "none"
                         => daemon'[p].shutdownSource = "exception"
                    /\ daemon[p].pc = "running" => daemon'[p].pc = "running"
               ELSE daemon'[p].shutdownSource = daemon[p].shutdownSource]_vars
    /\ \A p \in Procs :
         TakeoverSeen(p)
           ~> \/ daemon[p].pc \in CleanupPcs /\ daemon[p].source = "exception"
              \/ ~Alive(p)

\* A daemon whose tick found another live daemon's record has begun its
\* shutdown sequence with source 'exception' and has pushed it.
C19_Witness ==
    \E p \in Procs :
        /\ daemon[p].pushedSource = "exception"
        /\ stateFile.pid # p
        /\ Alive(stateFile.pid)

\* The state file holds the record of a live daemon other than p.
RecordOfAnotherLiveDaemon(p) ==
    stateFile # NoState /\ stateFile.pid # p /\ Alive(stateFile.pid)

\* C20: state-file single writer. Every daemon step that writes or deletes
\* the state file is taken by a process that has acquired the lock and has
\* not released it, and none of them replaces or deletes the record of
\* another live daemon.
C20_StateFileSingleWriter ==
    [][\A p \in Procs :
         (\/ WriteInitialState(p, TRUE)
          \/ TickFinish(p)
          \/ CleanupStateCleared(p, TRUE))
         => /\ daemon[p].daemonLockHandle
            /\ ~RecordOfAnotherLiveDaemon(p)]_vars

-----------------------------------------------------------------------------
(* Properties of the state file and of the startup of a daemon.            *)

\* The positions of a daemon between its initial writeDaemonState and the
\* cleanupDaemonState of its shutdown sequence.
RecordedPcs == {"register", "running", "sdPush", "sdServer", "sdClear"}

\* C21: persisted-state invariant. While a daemon is between its initial
\* state write and the clearing of the record by its shutdown sequence, the
\* state file holds a record with that daemon's pid, the port its control
\* server has bound and the version it was started with; and while there is
\* no record, no daemon is between these two points.
C21_PersistedStateInvariant ==
    /\ \A p \in Procs :
         daemon[p].pc \in RecordedPcs
         => /\ stateFile # NoState
            /\ stateFile.pid = p
            /\ stateFile.httpPort = daemon[p].controlPort
            /\ stateFile.httpPort = EphemeralPort(p)
            /\ stateFile.startedWithCliVersion = daemon[p].currentCliVersion
            /\ stateFile.startedWithCliVersion # 0
    /\ stateFile = NoState => \A p \in Procs : daemon[p].pc \notin RecordedPcs

\* A running daemon whose heartbeat has found a newer version on disk hangs,
\* with its record in the state file, while the daemon it started reads it.
C21_Witness ==
    \E p, q \in Procs :
        /\ daemon[p].pc = "running"
        /\ daemon[p].tickAt = "hang"
        /\ stateFile = OwnState(p)
        /\ daemon[q].pc = "stopDaemon"

\* The steps of startDaemon between the acquisition of the lock and the
\* await of the shutdown promise.
StartupPcs == {"auth", "server", "writeState", "register"}

\* A step of the startup of p throws.
StartupThrows(p) ==
    \/ Authenticate(p, FALSE)
    \/ StartControlServer(p, FALSE)
    \/ WriteInitialState(p, FALSE)
    \/ RegisterMachine(p, FALSE)

\* C22: fatal startup error. When a step between the acquisition of the lock
\* and the await of the shutdown promise throws, the process ends with exit
\* code 1 at once: the lock file still names it, the state file is left as
\* it was, and no step of the shutdown sequence is taken.
C22_FatalStartupError ==
    [][\A p \in Procs :
         StartupThrows(p)
         => /\ daemon[p].pc \in StartupPcs
            /\ daemon'[p].pc = "exit1"
            /\ lockFile = p
            /\ UNCHANGED <<stateFile, lockFile>>
            /\ daemon[p].pc = "register" => stateFile.pid = p]_vars

\* A daemon has ended with exit code 1 and has left its lock file and its
\* state record behind.
C22_Witness ==
    \E p \in Procs :
        /\ daemon[p].pc = "exit1"
        /\ lockFile = p
        /\ stateFile.pid = p

\* Process q has just been started and is alone: every other process is
\* gone or not started, and one that is gone has left the lock file or a
\* state record behind.
StartsAfterUncleanEnd(q) ==
    /\ daemon[q].pc = "check"
    /\ \A r \in Procs \ {q} : ~Alive(r)
    /\ \E p \in Procs \ {q} :
         /\ daemon[p].pc \in {"exit1", "killed"}
         /\ lockFile = p \/ stateFile.pid = p

-----------------------------------------------------------------------------
(* Further properties of the shutdown sequence.                            *)

\* C24: the push of the shutting-down state is best effort. Whatever becomes
\* of the updateDaemonState of the shutdown sequence - it succeeds, it fails,
\* or it is still pending when the process is not killed from outside - the
\* sequence leaves this step only for the next one, the stopping of the
\* control server, from where it goes on to exit code 0.
C24_BestEffortPush ==
    [][\A p \in Procs :
         (/\ daemon[p].pc = "sdPush"
          /\ daemon'[p].pc # "sdPush"
          /\ daemon'[p].pc # "killed")
         => daemon'[p].pc = "sdServer"]_vars

-----------------------------------------------------------------------------
(* Further properties of the session registry (SpecRegistry).              *)

\* C25: update in place. A self-report with session id s for a pid that is
\* tracked, as the daemon's own or as externally started, leaves that pid
\* with its one entry, now carrying happySessionId = s, with startedBy as it
\* was; no entry of another pid is made or changed.
C25_UpdateInPlace ==
    [][\A m \in inflight :
         (HandleWebhook(m) /\ pidToTrackedSession[m.pid] # NoSession)
         => /\ pidToTrackedSession'[m.pid] # NoSession
            /\ pidToTrackedSession'[m.pid].happySessionId = m.sid
            /\ pidToTrackedSession'[m.pid].startedBy
                 = pidToTrackedSession[m.pid].startedBy
            /\ \A p \in Pids \ {m.pid} :
                 pidToTrackedSession'[p] = pidToTrackedSession[p]]_vars

\* The results spawnSession returns after it has waited.
SpawnResults == {"success", "error"}

\* C26: awaiter exactly once. A spawn call that obtained a pid registers one
\* awaiter, for that pid, with its timer armed. A waiting call leaves the
\* wait by exactly one of two steps: a self-report for its pid is handled and
\* the call returns success with the reported id, or its timer fires and it
\* returns an error; either step leaves no awaiter of the call in the map and
\* no timer armed, and one of them comes. A returned result never changes
\* again, and a self-report for a pid without awaiter resolves nothing.
C26_AwaiterExactlyOnce ==
    /\ [](\A p \in Pids :
            pidToAwaiter[p] # 0 => /\ calls[pidToAwaiter[p]].st = "waiting"
                                   /\ calls[pidToAwaiter[p]].pid = p)
    /\ [](\A c \in Calls : calls[c].st \in SpawnResults => ~calls[c].timer)
    /\ [][\A c \in Calls :
            /\ (calls[c].st = "new" /\ calls'[c].st = "waiting")
               => /\ calls'[c].pid \in Pids
                  /\ pidToAwaiter'[calls'[c].pid] = c
                  /\ calls'[c].timer
                  /\ \A p \in Pids \ {calls'[c].pid} :
                       pidToAwaiter'[p] = pidToAwaiter[p]
            /\ (calls[c].st = "waiting" /\ calls'[c].st # "waiting")
               => /\ \A p \in Pids : pidToAwaiter'[p] # c
                  /\ \/ /\ WebhookTimeout(c)
                        /\ calls'[c].st = "error"
                     \/ /\ \E m \in inflight :
                             /\ HandleWebhook(m)
                             /\ m.pid = calls[c].pid
                             /\ pidToAwaiter[m.pid] = c
                             /\ calls'[c].sid = m.sid
                        /\ calls'[c].st = "success"
            /\ calls[c].st \in SpawnResults
               => /\ calls'[c].st = calls[c].st
                  /\ calls'[c].sid = calls[c].sid
            /\ \A m \in inflight :
                 (HandleWebhook(m) /\ pidToAwaiter[m.pid] = 0)
                 => calls'[c].st = calls[c].st]_vars
    /\ \A c \in Calls : (calls[c].st = "waiting") ~> (calls[c].st \in SpawnResults)

\* A call has returned success, and a later self-report for the pid of its
\* child has given the tracked session another id than the one returned.
C26_Witness ==
    \E c \in Calls, p \in Pids :
        /\ calls[c].st = "success"
        /\ pidToTrackedSession[p].startedBy = "daemon"
        /\ pidToTrackedSession[p].childProcess = c
        /\ pidToTrackedSession[p].happySessionId \notin {NoId, calls[c].sid}
        /\ pidToAwaiter[p] = 0

\* C27: the race of the self-report with the awaiter. The entry spawnSession
\* makes for its child and the awaiter of the call are registered in one
\* step, in which no self-report is handled. Whenever a self-report for a
\* pid tracked as the daemon's own is handled (with the awaiter of the pid
\* still registered, or gone after its timeout, or after an earlier report),
\* the entry carries the reported id afterwards and is still the daemon's
\* own; and a daemon-spawned entry without an id is one whose child's report
\* has not been handled yet.
C27_WebhookAwaiterRace ==
    /\ [](\A p \in Pids :
            (/\ pidToTrackedSession[p].startedBy = "daemon"
             /\ pidToTrackedSession[p].happySessionId = NoId)
            => \E m \in inflight :
                 m.pid = p /\ m.call = pidToTrackedSession[p].childProcess)
    /\ [][/\ \A p \in Pids :
              (/\ pidToTrackedSession'[p] # pidToTrackedSession[p]
               /\ pidToTrackedSession'[p].startedBy = "daemon"
               /\ pidToTrackedSession'[p].happySessionId = NoId)
              => /\ pidToAwaiter'[p] = pidToTrackedSession'[p].childProcess
                 /\ pidToAwaiter'[p] # 0
                 /\ inflight \subseteq inflight'
         /\ \A m \in inflight :
              (/\ HandleWebhook(m)
               /\ pidToTrackedSession[m.pid].startedBy = "daemon")
              => /\ pidToTrackedSession'[m.pid].happySessionId = m.sid
                 /\ m.sid # NoId
                 /\ pidToTrackedSession'[m.pid].startedBy = "daemon"]_vars

\* The report of a spawned child was handled after the timeout of its call:
\* the call has failed, the entry of the child carries a session id.
C27_Witness ==
    \E p \in Pids :
        /\ pidToTrackedSession[p].startedBy = "daemon"
        /\ pidToTrackedSession[p].happySessionId # NoId
        /\ pidToTrackedSession[p].childProcess \in Calls
        /\ calls[pidToTrackedSession[p].childProcess].st = "error"

\* C28: stop ignores the outcome of the signal. stopSession with an
\* identifier (a session id, or PID-<n>) that matches a tracked entry
\* returns true and removes the matching entry, whether the SIGTERM reached a
\* process or not; every other entry, the awaiters and the spawn calls'
\* results stay as they were, and a signal that reached no process changes
\* nothing besides.
C28_StopIgnoresDelivery ==
    [][\A ident \in Idents :
         (stopSession(ident) /\ \E q \in Pids : Matches(ident, q))
         => /\ stopFound'
            /\ \E pid \in Pids :
                 /\ Matches(ident, pid)
                 /\ pidToTrackedSession'[pid] = NoSession
                 /\ \A q \in Pids \ {pid} :
                      pidToTrackedSession'[q] = pidToTrackedSession[q]
                 /\ \A q \in Pids \ {pid} : os'[q] = os[q]
                 /\ ~KillDelivered(os, pid) => os' = os
            /\ pidToAwaiter' = pidToAwaiter
            /\ \A c \in Calls : calls'[c].st = calls[c].st]_vars

\* A stop has just returned true although no process took its signal (none
\* is terminating), and an entry of another pid is still tracked.
C28_Witness ==
    /\ stopFound
    /\ \A p \in Pids : os[p].st # "dying"
    /\ \E q \in Pids : pidToTrackedSession[q] # NoSession

-----------------------------------------------------------------------------
(* Properties of the child's environment (SpecEnv).                        *)

\* C29: precedence of the environment. For every key, the value the child
\* gets is the injected auth value when the auth variables define the key;
\* otherwise the value the caller supplied when the caller defines it;
\* otherwise the value of the daemon's own environment (absent when that
\* has none). No variable of the caller stands in place of an auth variable.
C29_EnvPrecedence ==
    childLaunch # NoLaunch =>
      LET auth == authEnv(childLaunch.token, childLaunch.agent)
          user == userEnv(childLaunch.environmentVariables)
      IN \A k \in EnvKeys :
           /\ childLaunch.env[k] = IF auth[k] # Absent THEN auth[k]
                                   ELSE IF user[k] # Absent THEN user[k]
                                   ELSE processEnv[k]
           /\ (childLaunch.token # Undefined /\ childLaunch.agent = "claude"
               /\ k = "CLAUDE_CODE_OAUTH_TOKEN")
              => childLaunch.env[k] = childLaunch.token
           /\ (childLaunch.token # Undefined /\ childLaunch.agent = "codex"
               /\ k = "CODEX_HOME")
              => childLaunch.env[k] = CodexHomeDir

\* A launch with a token whose caller also supplied a value for the token's
\* variable and one for PATH, the daemon having its own PATH and CODEX_HOME:
\* the child has the token, the caller's PATH and the daemon's CODEX_HOME.
C29_Witness ==
    /\ childLaunch.token \in Tokens
    /\ childLaunch.agent = "claude"
    /\ childLaunch.environmentVariables \in Envs
    /\ childLaunch.environmentVariables["CLAUDE_CODE_OAUTH_TOKEN"] \in EnvValues
    /\ childLaunch.environmentVariables["PATH"] = "y"
    /\ childLaunch.environmentVariables["CODEX_HOME"] = Absent
    /\ processEnv["PATH"] = "x"
    /\ processEnv["CODEX_HOME"] = "x"
    /\ childLaunch.env["CLAUDE_CODE_OAUTH_TOKEN"] = childLaunch.token
    /\ childLaunch.env["PATH"] = "y"
    /\ childLaunch.env["CODEX_HOME"] = "x"

-----------------------------------------------------------------------------
(* Further properties of spawnSession (SpecRegistry).                      *)

\* C30: failure to obtain a pid. When spawnHappyCLI returns a process
\* without pid, spawnSession returns its error in the same step, with the
\* message of the missing pid and not that of a timeout; no timer is armed,
\* and the registry, the awaiter map, the process table and the reports on
\* the wire are as before.
C30_NoPidFailure ==
    [][\A c \in Calls, i \in SpawnInputs :
         (spawnSession(c, i.directory, i.approved, i.mkdirOk, i.launch)
             /\ i.launch = 0)
         => /\ calls'[c].st = "error"
            /\ calls'[c].errorMessage = "no PID returned"
            /\ ~calls'[c].timer
            /\ \A p \in Pids : pidToAwaiter'[p] # c
            /\ UNCHANGED <<pidToTrackedSession, pidToAwaiter, os, inflight,
                           nextSid>>]_vars

\* A call has failed for want of a pid while another call waits for the
\* report of its child with its awaiter registered.
C30_Witness ==
    \E c, d \in Calls :
        /\ calls[c].st = "error"
        /\ calls[c].errorMessage = "no PID returned"
        /\ ~calls[c].timer
        /\ calls[d].st = "waiting"
        /\ pidToAwaiter[calls[d].pid] = d

\* C31: exit tracking. In the step in which a spawn call starts to wait for
\* the self-report, the entry of the new pid is in the registry, marked as
\* the daemon's own and holding the child of that call. When the exit
\* listener of a child runs, no entry is left for its pid and every other
\* entry is as before; when stop or the sweep had removed the entry already,
\* the registry does not change at all.
C31_ExitTracking ==
    [][/\ \A c \in Calls :
            (calls[c].st = "new" /\ calls'[c].st = "waiting")
            => /\ pidToTrackedSession'[calls'[c].pid].startedBy = "daemon"
               /\ pidToTrackedSession'[calls'[c].pid].childProcess = c
               /\ os'[calls'[c].pid].child
       /\ \A p \in Pids :
            onChildExited(p)
            => /\ pidToTrackedSession'[p] = NoSession
               /\ \A q \in Pids \ {p} :
                    pidToTrackedSession'[q] = pidToTrackedSession[q]
               /\ pidToTrackedSession[p] = NoSession
                    => pidToTrackedSession' = pidToTrackedSession]_vars

\* A spawned session was stopped by the id its call returned, its child has
\* ended and has been reaped: the exit listener found no entry to remove.
C31_Witness ==
    /\ \E c \in Calls : calls[c].st = "success" /\ calls[c].stopped
    /\ \A p \in Pids : os[p].st = "none" /\ pidToTrackedSession[p] = NoSession
    /\ nextSid = 2

-----------------------------------------------------------------------------
(* Properties of failing session operations (SpecOperations).              *)

\* C32: error containment. A failure inside one session operation (the
\* creation of the directory, the preparation of the auth material, the
\* launch, a missing pid, the webhook timeout, the delivery of the stop
\* signal) is reported as the result of the operation only: it raises no
\* shutdown request and the daemon is running afterwards as it was before.
C32_ErrorContainment ==
    [][\A p \in Procs, failure \in SessionFailures :
         SessionOperationFails(p, failure)
         => /\ daemon'[p].failed = failure
            /\ daemon'[p].shutdownSource = daemon[p].shutdownSource
            /\ daemon'[p].pc = "running"]_vars

-----------------------------------------------------------------------------
(* Properties of the RPC handler manager (SpecRpc).                        *)

\* C33: re-registration of the RPC handlers. Whenever the socket is
\* connected, every registered method has been announced on the current
\* connection and the manager holds the socket: a handler registered while
\* connected is announced in the same step, and a connect announces all the
\* handlers registered before it.
C33_HandlerReRegistration ==
    /\ [](connection = "connected" => (handlers \subseteq announced /\ socket = "set"))
    /\ [][/\ \A method \in Methods :
              (registerHandler(method) /\ connection = "connected")
              => method \in announced'
         /\ SocketConnect => announced' = handlers]_vars

\* Connected, with every method registered and announced.
C33_Witness ==
    /\ connection = "connected"
    /\ handlers = Methods
    /\ announced = Methods

-----------------------------------------------------------------------------
(* Further properties of the optimistic update (SpecUpdate).               *)

\* The update-state writes of this client that are on the wire or answered
\* and not yet taken.
Acks == {i \in 1..Len(toClient) : toClient[i].t = "ack"}
WritesInFlight == (IF request = Null THEN 0 ELSE 1) + Cardinality(Acks)

\* C34: serialization per field. At most one write of the client is in
\* flight, and one is in flight exactly while a call awaits its answer. A
\* call starts (its callback enters the lock) only when the call before it
\* has finished with all its retries and nothing of it is in flight, and it
\* keeps its mutator until it ends. Every write the authority accepts is the
\* mutator of the call in progress applied to the authority's value, so the
\* value after two calls has both mutators applied.
C34_PerFieldSerialization ==
    /\ [](/\ WritesInFlight <= 1
          /\ (updatePc = "await") <=> (WritesInFlight = 1))
    /\ [][/\ \A h \in Mutators :
              updateAgentState(h)
              => /\ updatePc = "idle"
                 /\ WritesInFlight = 0
                 /\ handler' = h
         /\ (updatePc # "idle" => handler' = handler)
         /\ (AuthorityHandles(FALSE) /\ serverVersion' # serverVersion)
            => /\ updatePc = "await"
               /\ serverValue' = Sealed(Updated(handler, Opened(serverValue)))]_vars

\* Both calls have been made, the second one after the first had ended; the
\* second has ended with success and the authority holds an object with
\* both keys.
C34_Witness ==
    /\ updatesLeft = 0
    /\ updatePc = "idle"
    /\ answered = "success"
    /\ handler.op = "toggle"
    /\ serverVersion = 2
    /\ Opened(serverValue) = Some(Keys)

C36_HardErrorAbandon ==
    /\ [](answered = "error" => updatePc = "idle" /\ WritesInFlight = 0)
    /\ [][(HandleAnswer /\ Head(toClient).result = "error")
            => /\ agentState' = agentState
               /\ agentStateVersion' = agentStateVersion
               /\ updatePc' = "idle"
               /\ request' = Null
               /\ attempts' = attempts
               /\ LockAdmits'
               /\ serverValue' = serverValue]_vars
    /\ [][\A h \in Mutators :
            (updateAgentState(h) /\ answered = "error")
            => /\ updatePc' = "attempt"
               /\ handler' = h
               /\ answered' = "none"]_vars

\* A call was abandoned on a hard error after a retry; the client holds the
\* version it had adopted, and another call is still to be made.
C36_Witness ==
    /\ answered = "error"
    /\ updatePc = "idle"
    /\ attempts >= 2
    /\ updatesLeft > 0
    /\ agentStateVersion > 0
    /\ toClient = <<>>

\* C37: the local version is monotonic. No step of the client (an update
\* event, a success answer, a version-mismatch answer), in whatever order
\* the authority's messages reach it, makes the version it holds smaller.
C37_LocalVersionMonotonic ==
    [][agentStateVersion' >= agentStateVersion]_vars

-----------------------------------------------------------------------------
(* Properties of the registry under the reuse of pids (SpecRegistry).      *)

\* C38: isolation of the awaiters. The timeout of one spawn call and the
\* resolution of its awaiter leave the awaiter a different call has
\* registered in the map, and that call waiting, also when both calls got
\* the same pid; the exit listener of a child leaves the entries of all
\* other pids alone.
C38_AwaiterIsolation ==
    [][/\ \A c, d \in Calls :
            (c # d /\ calls[d].st = "waiting" /\ pidToAwaiter[calls[d].pid] = d)
            => /\ WebhookTimeout(c)
                    => /\ pidToAwaiter'[calls[d].pid] = d
                       /\ calls'[d].st = "waiting"
               /\ (calls[c].st = "waiting" /\ calls'[c].st = "success")
                    => /\ pidToAwaiter'[calls[d].pid] = d
                       /\ calls'[d].st = "waiting"
       /\ \A p \in Pids :
            onChildExited(p)
            => \A q \in Pids \ {p} :
                 pidToTrackedSession'[q] = pidToTrackedSession[q]]_vars

\* C39: stable session identity. An entry that has a session id keeps that
\* id through every later self-report for its pid, as long as the entry is
\* in the registry; so a stop by the id a spawn call returned finds the
\* session of that call while it is tracked.
C39_StableSessionIdentity ==
    [][\A m \in inflight :
         (/\ HandleWebhook(m)
          /\ pidToTrackedSession[m.pid] # NoSession
          /\ pidToTrackedSession[m.pid].happySessionId # NoId)
         => pidToTrackedSession'[m.pid].happySessionId
              = pidToTrackedSession[m.pid].happySessionId]_vars

-----------------------------------------------------------------------------
(* Properties of the heartbeat under failing reads and writes              *)
(* (SpecTickFaults).                                                       *)

\* C40: release of the heartbeat guard. In every state in which a daemon is
\* running with its interval armed and no body of the callback in flight,
\* the running flag is false, whatever failed inside the ticks before.
C40_HeartbeatGuardRelease ==
    \A p \in Procs :
        (/\ daemon[p].pc = "running"
         /\ daemon[p].heartbeatOn
         /\ daemon[p].bodies = 0)
        => ~HeartbeatRunning(daemon[p])

====
